---- MODULE Spec2Model ----
(***************************************************************************)
(* Trustle: the App component (src/unnamed/part_000, lines 79-640).        *)
(*                                                                         *)
(* The component's React state is the set of variables below.  Its async   *)
(* handlers (handleRunPipeline, handleSendChatMessage) are processes with   *)
(* a program counter: a handler runs synchronously up to its next `await`   *)
(* and is resumed by the event loop later.  JavaScript is run-to-completion *)
(* so `thread` names the handler that currently owns the single thread      *)
(* ("none" between tasks); every other handler waits until it is released.  *)
(* Each updateAndTrackStatus call is a step of its own, so that the order   *)
(* of the status updates inside one synchronous block can be observed.      *)
(***************************************************************************)
EXTENDS Naturals, Sequences, FiniteSets, TLC

\* ------------------------------------------------------------------ bounds
\* Chunks a streamed response may yield before it ends.
MaxChunks == 2
\* User messages in one transcript.
MaxUserMessages == 2

\* The activations of handleRunPipeline; each is one submission.
Runs == {"r1", "r2"}

\* ------------------------------------------------------------ vocabulary
\* AgentName, in the pipeline's order.
AgentOrder == <<"CONTENT_INGESTION", "TEXTUAL_ANALYSIS", "EMOTION_ANALYSIS",
                "VISUAL_ANALYSIS", "SOURCE_INTELLIGENCE", "FINAL_SYNTHESIS">>

AgentNames == {AgentOrder[i] : i \in 1..Len(AgentOrder)}

AgentIndex(agent) == CHOOSE i \in 1..Len(AgentOrder) : AgentOrder[i] = agent

AgentStatuses == {"PENDING", "RUNNING", "COMPLETED", "SKIPPED", "ERROR"}

TerminalStatuses == {"COMPLETED", "SKIPPED", "ERROR"}

\* INITIAL_PIPELINE_STATE: every agent Pending.
INITIAL_PIPELINE_STATE == [a \in AgentNames |-> [status |-> "PENDING", details |-> ""]]

\* What the URL field can hold: <<>> is the empty string, a string new URL() accepts
\* is <<scheme, hostname, path>> and one it rejects is the tuple of its text alone.
NoUrl == <<>>

Urls == {<<"https", "x.com", "/a">>, <<"https", "y.org", "/b">>,
         <<"file", "", "/a">>, <<"example.com/a">>}

\* new URL(u) returns; it throws a TypeError otherwise.
ParsesAsUrl(u) == Len(u) = 3

\* new URL(u).hostname
Hostname(u) == u[2]

NoFile == ""

\* What the submit form can hand to handleRunPipeline.
Submissions == [url : Urls \cup {NoUrl}, textInput : {"", "some text"},
                imageFile : {NoFile, "image.png"}, videoFile : {NoFile, "video.mp4"}]

\* The text the ingestion model call can extract (after trim): nothing, or something.
ExtractedTexts == {"", "article text"}

\* trust_score values the source-intelligence model call can return.
TrustScores == {30, 39, 40}

MISINFORMATION_THRESHOLD == 40

\* The chunks a streamed response yields, in order; a stream yields a prefix of them.
StreamChunks == <<"a", "b", "c", "d">>

\* Failure causes.
ModelError == "model call failed"

ImageReadError == "Failed to read image file."

\* The TypeError of new URL().
InvalidUrlError == "Invalid URL"

NoDataError == "No data available to generate a brief. Provide a URL, image, or text."

FrameErrors == {"Cannot extract frames from a live stream.",
                "Error loading video file for frame extraction."}

\* getFriendlyErrorMessage: a user-presentable message for a failure cause.
getFriendlyErrorMessage(err) ==
    CASE err = ModelError -> "The model could not complete the request."
      [] err = ImageReadError -> "Failed to read image file."
      [] err = NoDataError -> "No data available to generate a brief. Provide a URL, image, or text."
      [] OTHER -> err

\* ------------------------------------------------------------ null values
NoError == [template |-> "", details |-> ""]

NoRecord == [domain |-> "", url |-> NoUrl, trustScore |-> 0, timestamp |-> 0]

NoReport == [null |-> TRUE, text |-> <<>>]

Report(text) == [null |-> FALSE, text |-> text]

NoSession == [id |-> 0, report |-> <<>>]

NoIngestion == [present |-> FALSE, text |-> "", domain |-> ""]

NoSource == [present |-> FALSE, trust_score |-> 0, source_validity |-> ""]

\* AnalysisResults {}: no field populated.
EmptyResults == [ingestion |-> NoIngestion, textual |-> FALSE, emotion |-> FALSE,
                 visual |-> FALSE, source |-> NoSource]

\* The locals of one handleRunPipeline activation.
IdleRun == [pc |-> "idle", input |-> [url |-> NoUrl, textInput |-> "",
                                      imageFile |-> NoFile, videoFile |-> NoFile],
            imageData |-> FALSE,
            currentPipelineState |-> INITIAL_PIPELINE_STATE,
            currentAnalysisResults |-> EmptyResults,
            fullReport |-> <<>>,
            record |-> NoRecord, err |-> "", outcome |-> "none"]

\* Activations of handleSendChatMessage that may exist at once.
Sends == {"s1", "s2"}

\* The locals of one handleSendChatMessage activation.
IdleSend == [pc |-> "idle", session |-> NoSession, message |-> "", modelResponse |-> <<>>]

\* Activations of handleRunComparison that may exist at once.
Compares == {"c1", "c2"}

\* The locals of one handleRunComparison activation.
IdleCompare == [pc |-> "idle", reportsToCompare |-> <<>>, fullBrief |-> <<>>]

\* ------------------------------------------------------------------ state
VARIABLES
    \* React state of App
    url, isLoading, pipelineState, analysisResults, finalReport, error,
    history, activeAnalysisId, misinformationWarning,
    chatSession, chatMessages, isChatLoading,
    isCompareMode, selectedHistoryIds, isComparing, comparisonReport,
    showComparisonView,
    \* persistent stores
    memory,        \* the misinformation object store (IndexedDB), a set of records
    localHistory,  \* localStorage[historyKey]
    \* processes
    run,           \* Runs -> locals of the handleRunPipeline activations
    thread,        \* the activation running synchronous code, or "none"
    send,          \* Sends -> locals of the handleSendChatMessage activations
    compare,       \* Compares -> locals of the handleRunComparison activations
    \* environment
    clock,         \* the time of the last reading of the system clock
    \* history variables, read by no action
    abandoned,     \* the runs in flight when the user reset or replaced the view
    lastUpsert     \* domain -> the record of the last upsert that was stored

viewVars == <<url, isLoading, pipelineState, analysisResults, finalReport, error,
              activeAnalysisId>>

chatVars == <<chatSession, chatMessages, isChatLoading>>

compareVars == <<isCompareMode, selectedHistoryIds, isComparing, comparisonReport,
                 showComparisonView, compare>>

storeVars == <<memory, localHistory>>

ghostVars == <<abandoned, lastUpsert>>

vars == <<viewVars, chatVars, compareVars, storeVars, history,
          misinformationWarning, run, thread, send, clock, ghostVars>>

\* Date.now(), new Date(): what a reading of the system clock can return after a
\* reading of t, the same instant or a later one.
Now(t) == {t, t + 1}

\* -------------------------------------------------- Misinformation Memory
\* services/db addMisinformationRecord: a put into the store keyed by domain.
addMisinformationRecord(store, rec) ==
    {m \in store : m.domain # rec.domain} \cup {rec}

\* services/db getMisinformationRecordByDomain: the record of the domain, if any.
getMisinformationRecordByDomain(store, domain) ==
    IF \E m \in store : m.domain = domain
    THEN CHOOSE m \in store : m.domain = domain
    ELSE NoRecord

\* -------------------------------------------------------------------- Init
Domains == {Hostname(u) : u \in {v \in Urls : ParsesAsUrl(v)}}

\* A value of localStorage[historyKey] that JSON.parse rejects.
CorruptStore == <<[text |-> "{"]>>

\* JSON.parse accepts the stored value: it is the JSON of a history.
ParsesAsJson(stored) == stored # CorruptStore

\* The history after the effect of the mount: the stored value when getItem returns
\* it, it is not empty and JSON.parse accepts it; the useState default when there is
\* none, or when getItem or JSON.parse throws and the catch clause logs the error.
LoadedHistory(stored, getItemWorks) ==
    IF getItemWorks /\ stored # <<>> /\ ParsesAsJson(stored) THEN stored ELSE <<>>

\* The component is mounted: every piece of React state has its useState default,
\* the history is what the mount could load from localStorage, which keeps what it
\* holds, and the memory is what IndexedDB holds.
InitWith(storedMemory, stored, getItemWorks) ==
    /\ url = NoUrl
    /\ isLoading = FALSE
    /\ pipelineState = INITIAL_PIPELINE_STATE
    /\ analysisResults = EmptyResults
    /\ finalReport = NoReport
    /\ error = NoError
    /\ history = LoadedHistory(stored, getItemWorks)
    /\ activeAnalysisId = 0
    /\ misinformationWarning = NoRecord
    /\ chatSession = NoSession
    /\ chatMessages = <<>>
    /\ isChatLoading = FALSE
    /\ isCompareMode = FALSE
    /\ selectedHistoryIds = <<>>
    /\ isComparing = FALSE
    /\ comparisonReport = NoReport
    /\ showComparisonView = FALSE
    /\ memory = storedMemory
    /\ localHistory = stored
    /\ run = [r \in Runs |-> IdleRun]
    /\ thread = "none"
    /\ send = [s \in Sends |-> IdleSend]
    /\ compare = [c \in Compares |-> IdleCompare]
    /\ clock = 3
    /\ abandoned = {}
    /\ lastUpsert = [d \in Domains |-> getMisinformationRecordByDomain(storedMemory, d)]

\* What an earlier session can have left in the memory: nothing, or the record of
\* a source it found unreliable.
StoredMemories ==
    {{}, {[domain |-> "x.com", url |-> <<"https", "x.com", "/a">>,
           trustScore |-> 30, timestamp |-> 1]}}

\* ------------------------------------------------------------ user actions
\* resetAnalysisState, apart from url and isLoading which its callers may set again.
ResetView ==
    /\ pipelineState' = INITIAL_PIPELINE_STATE
    /\ analysisResults' = EmptyResults
    /\ finalReport' = NoReport
    /\ error' = NoError
    /\ activeAnalysisId' = 0

ResetChat ==
    /\ chatSession' = NoSession
    /\ chatMessages' = <<>>
    /\ isChatLoading' = FALSE

ResetCompare ==
    /\ isCompareMode' = FALSE
    /\ selectedHistoryIds' = <<>>
    /\ isComparing' = FALSE
    /\ comparisonReport' = NoReport
    /\ showComparisonView' = FALSE

resetAnalysisState ==
    /\ url' = NoUrl
    /\ isLoading' = FALSE
    /\ ResetView
    /\ ResetChat
    /\ ResetCompare

\* The runs past their own resetAnalysisState and not yet finished: what a reset or a
\* history selection by the user leaves behind.
RunsUnderWay == {r \in Runs : run[r].pc \notin {"idle", "lookup", "begin", "done"}}

handleNewAnalysis ==
    /\ thread = "none"
    /\ resetAnalysisState
    /\ misinformationWarning' = NoRecord
    /\ abandoned' = abandoned \cup RunsUnderWay
    /\ UNCHANGED <<storeVars, history, run, thread, send, compare, clock, lastUpsert>>

\* The dismiss button of the warning banner, which the main column shows while there
\* is a warning.
DismissWarning ==
    /\ thread = "none"
    /\ ~showComparisonView
    /\ misinformationWarning # NoRecord
    /\ misinformationWarning' = NoRecord
    /\ UNCHANGED <<viewVars, chatVars, compareVars, storeVars, history, run, thread, send,
                   clock, ghostVars>>

\* A clear that spares the newest item.
handleClearHistory_KeepNewest ==
    /\ thread = "none"
    /\ history' = IF history = <<>> THEN <<>> ELSE <<history[1]>>
    /\ \/ localHistory' = <<>>
       \/ UNCHANGED localHistory
    /\ resetAnalysisState
    /\ abandoned' = abandoned \cup RunsUnderWay
    /\ UNCHANGED <<memory, misinformationWarning, run, thread, send, compare, clock,
                   lastUpsert>>

handleClearHistory ==
    /\ thread = "none"
    /\ history' = <<>>
    /\ \/ localHistory' = <<>>
       \/ UNCHANGED localHistory      \* localStorage.removeItem failed
    /\ resetAnalysisState
    /\ abandoned' = abandoned \cup RunsUnderWay
    /\ UNCHANGED <<memory, misinformationWarning, run, thread, send, compare, clock,
                   lastUpsert>>

\* ------------------------------------------------------ handleRunPipeline
\* setUrl's argument: the URL, or a descriptor of the input.
InputDescriptor(in) ==
    IF in.url # NoUrl THEN in.url
    ELSE IF in.textInput # "" THEN <<"Direct Text Input">>
    ELSE IF in.imageFile # NoFile THEN <<in.imageFile>>
    ELSE <<in.videoFile>>

EmptySubmission(in) ==
    in.url = NoUrl /\ in.imageFile = NoFile /\ in.videoFile = NoFile /\ in.textInput = ""

\* updateAndTrackStatus that loses the Completed updates.
updateAndTrackStatus_DropCompleted(rr, agent, status, details) ==
    IF status = "COMPLETED" THEN rr
    ELSE [rr EXCEPT !.currentPipelineState[agent] = [status |-> status, details |-> details]]

\* updateAndTrackStatus that loses the Skipped updates.
updateAndTrackStatus_DropSkipped(rr, agent, status, details) ==
    IF status = "SKIPPED" THEN rr
    ELSE [rr EXCEPT !.currentPipelineState[agent] = [status |-> status, details |-> details]]

\* updateAndTrackStatus on the activation's locals; the action that uses it also
\* publishes the result with setPipelineState.
updateAndTrackStatus(rr, agent, status, details) ==
    [rr EXCEPT !.currentPipelineState[agent] = [status |-> status, details |-> details]]

At(rr, pc) == [rr EXCEPT !.pc = pc]

\* A throw inside the try block: control goes to the catch clause.
Throw(rr, err) == [rr EXCEPT !.pc = "catch", !.err = err]

\* The submission is a URL whose hostname new URL() yields: the lookup is awaited.
\* With a string new URL() rejects the throw is caught and logged, and the handler
\* goes on without a lookup.
LooksUp(in) == in.url # NoUrl /\ ParsesAsUrl(in.url)

\* The handler is entered: the empty-input test, the warning is cleared, and for a
\* URL the misinformation lookup is issued and awaited.
Submit(r, in) ==
    /\ thread = "none"
    /\ run[r].pc = "idle"
    /\ IF EmptySubmission(in)
       THEN UNCHANGED vars
       ELSE /\ misinformationWarning' = NoRecord
            /\ run' = [run EXCEPT ![r] =
                         [IdleRun EXCEPT !.input = in,
                                         !.pc = IF LooksUp(in) THEN "lookup" ELSE "begin"]]
            /\ thread' = IF LooksUp(in) THEN "none" ELSE r
            /\ UNCHANGED <<viewVars, chatVars, compareVars, storeVars, history, send,
                           clock, ghostVars>>

\* The lookup resolves with the record or nothing, or rejects (caught and logged).
LookupDone(r) ==
    /\ thread = "none"
    /\ run[r].pc = "lookup"
    /\ \E ok \in BOOLEAN :
         LET record == IF ok
                       THEN getMisinformationRecordByDomain(memory, Hostname(run[r].input.url))
                       ELSE NoRecord
         IN misinformationWarning' = IF record # NoRecord THEN record
                                     ELSE misinformationWarning
    /\ run' = [run EXCEPT ![r] = At(@, "begin")]
    /\ thread' = r
    /\ UNCHANGED <<viewVars, chatVars, compareVars, storeVars, history, send, clock, ghostVars>>

\* A state reset that also takes the warning down.
Begin_ClearsWarning(r) ==
    /\ thread = r
    /\ run[r].pc = "begin"
    /\ url' = InputDescriptor(run[r].input)
    /\ isLoading' = TRUE
    /\ ResetView
    /\ ResetChat
    /\ ResetCompare
    /\ misinformationWarning' = NoRecord
    /\ IF run[r].input.imageFile # NoFile
       THEN /\ run' = [run EXCEPT ![r] = At(@, "readImage")]
            /\ thread' = "none"
       ELSE /\ run' = [run EXCEPT ![r] = At(@, "ingest")]
            /\ thread' = r
    /\ UNCHANGED <<storeVars, history, send, compare, clock, ghostVars>>

\* resetAnalysisState, setUrl, setIsLoading(true), the locals; an image is read first.
Begin(r) ==
    /\ thread = r
    /\ run[r].pc = "begin"
    /\ url' = InputDescriptor(run[r].input)
    /\ isLoading' = TRUE
    /\ ResetView
    /\ ResetChat
    /\ ResetCompare
    /\ IF run[r].input.imageFile # NoFile
       THEN /\ run' = [run EXCEPT ![r] = At(@, "readImage")]
            /\ thread' = "none"
       ELSE /\ run' = [run EXCEPT ![r] = At(@, "ingest")]
            /\ thread' = r
    /\ UNCHANGED <<storeVars, history, misinformationWarning, send, compare, clock,
                   ghostVars>>

ReadImageDone(r) ==
    /\ thread = "none"
    /\ run[r].pc = "readImage"
    /\ \/ run' = [run EXCEPT ![r] = [@ EXCEPT !.pc = "ingest", !.imageData = TRUE]]
       \/ run' = [run EXCEPT ![r] = Throw(@, ImageReadError)]
    /\ thread' = r
    /\ UNCHANGED <<viewVars, chatVars, compareVars, storeVars, history,
                   misinformationWarning, send, clock, ghostVars>>

\* A step that changes only the activation's locals.
LocalStep(r, rr, th) ==
    /\ run' = [run EXCEPT ![r] = rr]
    /\ thread' = th
    /\ UNCHANGED <<viewVars, chatVars, compareVars, storeVars, history,
                   misinformationWarning, send, clock, ghostVars>>

\* A step that ends with updateAndTrackStatus: setPipelineState(currentPipelineState).
StatusStep(r, rr, th) ==
    /\ run' = [run EXCEPT ![r] = rr]
    /\ thread' = th
    /\ pipelineState' = rr.currentPipelineState
    /\ UNCHANGED <<url, isLoading, analysisResults, finalReport, error, activeAnalysisId,
                   chatVars, compareVars, storeVars, history, misinformationWarning,
                   send, clock, ghostVars>>

\* A step that publishes the result and leaves the status for a later step.
ResultStep_StatusUnpublished(r, rr, th) ==
    /\ run' = [run EXCEPT ![r] = rr]
    /\ thread' = th
    /\ analysisResults' = rr.currentAnalysisResults
    /\ UNCHANGED <<url, isLoading, pipelineState, finalReport, error, activeAnalysisId,
                   chatVars, compareVars, storeVars, history, misinformationWarning,
                   send, clock, ghostVars>>

\* A step that stores a result, setAnalysisResults(currentAnalysisResults), and then
\* ends with updateAndTrackStatus.
ResultStep(r, rr, th) ==
    /\ run' = [run EXCEPT ![r] = rr]
    /\ thread' = th
    /\ pipelineState' = rr.currentPipelineState
    /\ analysisResults' = rr.currentAnalysisResults
    /\ UNCHANGED <<url, isLoading, finalReport, error, activeAnalysisId,
                   chatVars, compareVars, storeVars, history, misinformationWarning,
                   send, clock, ghostVars>>

\* ---- 1. Content Ingestion
WithIngestion(rr, text, domain) ==
    [rr EXCEPT !.currentAnalysisResults.ingestion =
                  [present |-> TRUE, text |-> text, domain |-> domain]]

\* An ingestion that looks at the URL only: raw text is skipped like no input.
Ingest_UrlOnly(r) ==
    /\ thread = r
    /\ run[r].pc = "ingest"
    /\ IF run[r].input.url # NoUrl
       THEN StatusStep(r, At(updateAndTrackStatus(run[r], "CONTENT_INGESTION", "RUNNING",
                                "Ingesting content from URL..."), "awaitIngest"), "none")
       ELSE StatusStep(r, At(updateAndTrackStatus(run[r], "CONTENT_INGESTION", "SKIPPED",
                                "No URL or text provided"), "textual"), r)

Ingest(r) ==
    /\ thread = r
    /\ run[r].pc = "ingest"
    /\ IF run[r].input.url # NoUrl
       THEN StatusStep(r, At(updateAndTrackStatus(run[r], "CONTENT_INGESTION", "RUNNING",
                                "Ingesting content from URL..."), "awaitIngest"), "none")
       ELSE IF run[r].input.textInput # ""
       THEN StatusStep(r, At(updateAndTrackStatus(run[r], "CONTENT_INGESTION", "RUNNING",
                                "Processing direct text..."), "ingestText"), r)
       ELSE StatusStep(r, At(updateAndTrackStatus(run[r], "CONTENT_INGESTION", "SKIPPED",
                                "No URL or text provided"), "textual"), r)

\* A text ingestion that gives direct text the domain of a site.
IngestText_WithDomain(r) ==
    /\ thread = r
    /\ run[r].pc = "ingestText"
    /\ ResultStep(r, At(updateAndTrackStatus(
                           WithIngestion(run[r], run[r].input.textInput, "x.com"),
                           "CONTENT_INGESTION", "COMPLETED", "Text processed"),
                        "textual"), r)

IngestText(r) ==
    /\ thread = r
    /\ run[r].pc = "ingestText"
    /\ ResultStep(r, At(updateAndTrackStatus(
                           WithIngestion(run[r], run[r].input.textInput, ""),
                           "CONTENT_INGESTION", "COMPLETED", "Text processed"),
                        "textual"), r)

\* The ingestion model call returns (the text extracted from its answer, trimmed) or
\* throws; after it has returned, new URL() throws on a string it rejects.
IngestDone(r) ==
    /\ thread = "none"
    /\ run[r].pc = "awaitIngest"
    /\ \/ \E text \in ExtractedTexts :
            IF ParsesAsUrl(run[r].input.url)
            THEN ResultStep(r, At(updateAndTrackStatus(
                                WithIngestion(run[r], text, Hostname(run[r].input.url)),
                                "CONTENT_INGESTION", "COMPLETED",
                                IF text # "" THEN "Text extracted" ELSE "No main text found"),
                             "textual"), r)
            ELSE LocalStep(r, Throw(run[r], InvalidUrlError), r)
       \/ LocalStep(r, Throw(run[r], ModelError), r)

\* ---- 2. Textual Analysis
\* A test for the ingestion result instead of its text.
HasText_AnyIngestion(rr) == rr.currentAnalysisResults.ingestion.present

\* currentAnalysisResults.ingestion?.text
HasText(rr) ==
    rr.currentAnalysisResults.ingestion.present
    /\ rr.currentAnalysisResults.ingestion.text # ""

\* A textual stage that calls the model at once, without the delay before it.
Textual_WithoutDelay(r) ==
    /\ thread = r
    /\ run[r].pc = "textual"
    /\ IF HasText(run[r])
       THEN StatusStep(r, At(updateAndTrackStatus(run[r], "TEXTUAL_ANALYSIS", "RUNNING",
                                "Analyzing text..."), "awaitTextual"), "none")
       ELSE StatusStep(r, At(updateAndTrackStatus(run[r], "TEXTUAL_ANALYSIS", "SKIPPED",
                                "No text to analyze"), "emotion"), r)

Textual(r) ==
    /\ thread = r
    /\ run[r].pc = "textual"
    /\ IF HasText(run[r])
       THEN LocalStep(r, At(run[r], "delayTextual"), "none")
       ELSE StatusStep(r, At(updateAndTrackStatus(run[r], "TEXTUAL_ANALYSIS", "SKIPPED",
                                "No text to analyze"), "emotion"), r)

TextualStart(r) ==
    /\ thread = "none"
    /\ run[r].pc = "delayTextual"
    /\ StatusStep(r, At(updateAndTrackStatus(run[r], "TEXTUAL_ANALYSIS", "RUNNING",
                           "Analyzing text..."), "awaitTextual"), "none")

TextualDone(r) ==
    /\ thread = "none"
    /\ run[r].pc = "awaitTextual"
    /\ \/ ResultStep(r, At(updateAndTrackStatus(
                              [run[r] EXCEPT !.currentAnalysisResults.textual = TRUE],
                              "TEXTUAL_ANALYSIS", "COMPLETED",
                              "Summary and entities extracted"), "emotion"), r)
       \/ LocalStep(r, Throw(run[r], ModelError), r)

\* ---- 3. Emotion Analysis
Emotion(r) ==
    /\ thread = r
    /\ run[r].pc = "emotion"
    /\ IF HasText(run[r])
       THEN LocalStep(r, At(run[r], "delayEmotion"), "none")
       ELSE StatusStep(r, At(updateAndTrackStatus(run[r], "EMOTION_ANALYSIS", "SKIPPED",
                                "No text to analyze"), "visual"), r)

EmotionStart(r) ==
    /\ thread = "none"
    /\ run[r].pc = "delayEmotion"
    /\ StatusStep(r, At(updateAndTrackStatus(run[r], "EMOTION_ANALYSIS", "RUNNING",
                           "Analyzing emotional tone..."), "awaitEmotion"), "none")

EmotionDone(r) ==
    /\ thread = "none"
    /\ run[r].pc = "awaitEmotion"
    /\ \/ ResultStep(r, At(updateAndTrackStatus(
                              [run[r] EXCEPT !.currentAnalysisResults.emotion = TRUE],
                              "EMOTION_ANALYSIS", "COMPLETED", "Emotion: fear"),
                           "visual"), r)
       \/ LocalStep(r, Throw(run[r], ModelError), r)

\* ---- 4. Visual Analysis
\* A visual stage that looks at the image only: a video is skipped like no media.
Visual_ImageOnly(r) ==
    /\ thread = r
    /\ run[r].pc = "visual"
    /\ IF run[r].imageData
       THEN LocalStep(r, At(run[r], "delayVisual"), "none")
       ELSE StatusStep(r, At(updateAndTrackStatus(run[r], "VISUAL_ANALYSIS", "SKIPPED",
                                "No visual media uploaded"), "source"), r)

Visual(r) ==
    /\ thread = r
    /\ run[r].pc = "visual"
    /\ IF run[r].imageData \/ run[r].input.videoFile # NoFile
       THEN LocalStep(r, At(run[r], "delayVisual"), "none")
       ELSE StatusStep(r, At(updateAndTrackStatus(run[r], "VISUAL_ANALYSIS", "SKIPPED",
                                "No visual media uploaded"), "source"), r)

\* A visual stage that prefers the video to the image.
VisualStart_VideoFirst(r) ==
    /\ thread = "none"
    /\ run[r].pc = "delayVisual"
    /\ IF run[r].input.videoFile = NoFile
       THEN StatusStep(r, At(updateAndTrackStatus(run[r], "VISUAL_ANALYSIS", "RUNNING",
                                "Analyzing uploaded image..."), "awaitVisual"), "none")
       ELSE StatusStep(r, At(updateAndTrackStatus(run[r], "VISUAL_ANALYSIS", "RUNNING",
                                "Extracting frames from video..."), "awaitFrames"), "none")

VisualStart(r) ==
    /\ thread = "none"
    /\ run[r].pc = "delayVisual"
    /\ IF run[r].imageData
       THEN StatusStep(r, At(updateAndTrackStatus(run[r], "VISUAL_ANALYSIS", "RUNNING",
                                "Analyzing uploaded image..."), "awaitVisual"), "none")
       ELSE StatusStep(r, At(updateAndTrackStatus(run[r], "VISUAL_ANALYSIS", "RUNNING",
                                "Extracting frames from video..."), "awaitFrames"), "none")

\* extractFramesFromVideo resolves with the frames or rejects.
FramesDone(r) ==
    /\ thread = "none"
    /\ run[r].pc = "awaitFrames"
    /\ \/ StatusStep(r, At(updateAndTrackStatus(run[r], "VISUAL_ANALYSIS", "RUNNING",
                              "Analyzing video frames..."), "awaitVisual"), "none")
       \/ \E e \in FrameErrors : LocalStep(r, Throw(run[r], e), r)

VisualDone(r) ==
    /\ thread = "none"
    /\ run[r].pc = "awaitVisual"
    /\ \/ ResultStep(r, At(updateAndTrackStatus(
                              [run[r] EXCEPT !.currentAnalysisResults.visual = TRUE],
                              "VISUAL_ANALYSIS", "COMPLETED",
                              IF run[r].imageData THEN "Image analysis complete"
                              ELSE "Video analysis complete"), "source"), r)
       \/ LocalStep(r, Throw(run[r], ModelError), r)

\* ---- 5. Source Intelligence
\* A record keyed by the path of the URL instead of the ingestion domain.
MisinformationRecordOf_KeyedByPath(rr, score, now) ==
    [domain |-> rr.input.url[3],
     url |-> rr.input.url,
     trustScore |-> score,
     timestamp |-> now]

\* The record handed to addMisinformationRecord.
MisinformationRecordOf(rr, score, now) ==
    [domain |-> rr.currentAnalysisResults.ingestion.domain,
     url |-> rr.input.url,
     trustScore |-> score,
     timestamp |-> now]

\* A write-back that does not look at the score.
BelowThreshold_Always(score) == TRUE

\* The threshold test with the boundary included.
BelowThreshold_Inclusive(score) == score <= MISINFORMATION_THRESHOLD

\* A write-back of the scores that reach the threshold.
BelowThreshold_Reversed(score) == score >= MISINFORMATION_THRESHOLD

\* Whether a source result is written back to the memory.
BelowThreshold(score) == score < MISINFORMATION_THRESHOLD

\* A source stage that is skipped when the ingestion found no text.
Source_NeedsText(r) ==
    /\ thread = r
    /\ run[r].pc = "source"
    /\ IF HasText(run[r]) /\ run[r].currentAnalysisResults.ingestion.domain # ""
       THEN LocalStep(r, At(run[r], "delaySource"), "none")
       ELSE StatusStep(r, At(updateAndTrackStatus(run[r], "SOURCE_INTELLIGENCE", "SKIPPED",
                                "No domain to verify"), "final"), r)

Source(r) ==
    /\ thread = r
    /\ run[r].pc = "source"
    /\ IF run[r].currentAnalysisResults.ingestion.present
          /\ run[r].currentAnalysisResults.ingestion.domain # ""
       THEN LocalStep(r, At(run[r], "delaySource"), "none")
       ELSE StatusStep(r, At(updateAndTrackStatus(run[r], "SOURCE_INTELLIGENCE", "SKIPPED",
                                "No domain to verify"), "final"), r)

SourceStart(r) ==
    /\ thread = "none"
    /\ run[r].pc = "delaySource"
    /\ StatusStep(r, At(updateAndTrackStatus(run[r], "SOURCE_INTELLIGENCE", "RUNNING",
                           "Verifying source credibility..."), "awaitSource"), "none")

\* performSourceIntelligence returns a result or throws; a low score issues the upsert
\* of a record stamped with the time read then.
SourceDone(r) ==
    /\ thread = "none"
    /\ run[r].pc = "awaitSource"
    /\ \/ \E score \in TrustScores, now \in Now(clock) :
            LET done == updateAndTrackStatus(
                           [run[r] EXCEPT !.currentAnalysisResults.source =
                               [present |-> TRUE, trust_score |-> score,
                                source_validity |-> "Questionable"]],
                           "SOURCE_INTELLIGENCE", "COMPLETED", "Credibility: Questionable")
            IN /\ IF BelowThreshold(score)
                  THEN /\ run' = [run EXCEPT ![r] =
                                    [done EXCEPT !.pc = "awaitUpsert",
                                                 !.record = MisinformationRecordOf(done, score, now)]]
                       /\ thread' = "none"
                       /\ clock' = now
                  ELSE /\ run' = [run EXCEPT ![r] = At(done, "final")]
                       /\ thread' = r
                       /\ now = clock
                       /\ UNCHANGED clock
               /\ pipelineState' = done.currentPipelineState
               /\ analysisResults' = done.currentAnalysisResults
               /\ UNCHANGED <<url, isLoading, finalReport, error, activeAnalysisId,
                              chatVars, compareVars, storeVars, history,
                              misinformationWarning, send, ghostVars>>
       \/ LocalStep(r, Throw(run[r], ModelError), r)

\* An upsert whose rejection is not caught: it reaches the catch clause of the run.
UpsertDone_Fatal(r) ==
    /\ thread = "none"
    /\ run[r].pc = "awaitUpsert"
    /\ \/ /\ memory' = addMisinformationRecord(memory, run[r].record)
          /\ lastUpsert' = [lastUpsert EXCEPT
                               ![run[r].currentAnalysisResults.ingestion.domain] = run[r].record]
          /\ run' = [run EXCEPT ![r] = At(@, "final")]
          /\ thread' = r
          /\ UNCHANGED <<viewVars, chatVars, compareVars, localHistory, history,
                         misinformationWarning, send, clock, abandoned>>
       \/ LocalStep(r, Throw(run[r], "Failed to save misinformation record"), r)

\* addMisinformationRecord resolves (the record is stored) or rejects (caught, logged).
UpsertDone(r) ==
    /\ thread = "none"
    /\ run[r].pc = "awaitUpsert"
    /\ \/ /\ memory' = addMisinformationRecord(memory, run[r].record)
          /\ lastUpsert' = [lastUpsert EXCEPT
                               ![run[r].currentAnalysisResults.ingestion.domain] = run[r].record]
       \/ UNCHANGED <<memory, lastUpsert>>
    /\ run' = [run EXCEPT ![r] = At(@, "final")]
    /\ thread' = r
    /\ UNCHANGED <<viewVars, chatVars, compareVars, localHistory, history,
                   misinformationWarning, send, clock, abandoned>>

\* ---- 6. Final Synthesis
\* A synthesis step without its precondition.
HasDataForBrief_Always(rr) == TRUE

\* The synthesis precondition: a textual or a visual result.
HasDataForBrief(rr) ==
    rr.currentAnalysisResults.textual \/ rr.currentAnalysisResults.visual

Final(r) ==
    /\ thread = r
    /\ run[r].pc = "final"
    /\ IF ~HasDataForBrief(run[r])
       THEN LocalStep(r, Throw(run[r], NoDataError), r)
       ELSE LocalStep(r, At(run[r], "delayFinal"), "none")

\* After the cooldown: Running, the stream is created, the report is set to ''.
FinalStart(r) ==
    /\ thread = "none"
    /\ run[r].pc = "delayFinal"
    /\ LET rr == [updateAndTrackStatus(run[r], "FINAL_SYNTHESIS", "RUNNING",
                                       "Generating final brief...")
                  EXCEPT !.pc = "stream", !.fullReport = <<>>]
       IN /\ run' = [run EXCEPT ![r] = rr]
          /\ pipelineState' = rr.currentPipelineState
    /\ finalReport' = Report(<<>>)
    /\ thread' = "none"
    /\ UNCHANGED <<url, isLoading, analysisResults, error, activeAnalysisId,
                   chatVars, compareVars, storeVars, history, misinformationWarning,
                   send, clock, ghostVars>>

\* setFinalReport(prev => (prev ?? '') + chunk)
AppendChunk(prev, chunk) ==
    Report((IF prev.null THEN <<>> ELSE prev.text) \o <<chunk>>)

StreamChunk(r) ==
    /\ thread = "none"
    /\ run[r].pc = "stream"
    /\ Len(run[r].fullReport) < MaxChunks
    /\ LET chunk == StreamChunks[Len(run[r].fullReport) + 1]
       IN /\ run' = [run EXCEPT ![r].fullReport = Append(@, chunk)]
          /\ finalReport' = AppendChunk(finalReport, chunk)
    /\ UNCHANGED <<url, isLoading, pipelineState, analysisResults, error, activeAnalysisId,
                   chatVars, compareVars, storeVars, history, misinformationWarning,
                   thread, send, clock, ghostVars>>

StreamEnd(r) ==
    /\ thread = "none"
    /\ run[r].pc = "stream"
    /\ StatusStep(r, At(updateAndTrackStatus(run[r], "FINAL_SYNTHESIS", "COMPLETED",
                           "Brief generated successfully"), "complete"), r)

StreamFail(r) ==
    /\ thread = "none"
    /\ run[r].pc = "stream"
    /\ LocalStep(r, Throw(run[r], ModelError), r)

\* ---- completion
\* The smallest identity no live reference holds: startFollowUpChat returns a new object.
FreshSessionId ==
    LET used == {chatSession.id} \cup {send[s].session.id : s \in Sends}
    IN CHOOSE n \in 1..(Cardinality(Sends) + 2) :
            n \notin used /\ \A m \in 1..(n - 1) : m \in used

\* services/geminiService startFollowUpChat: a new session grounded in the report.
startFollowUpChat(report) == [id |-> FreshSessionId, report |-> report]

NewReportGreeting ==
    [role |-> "model",
     content |-> <<"I've generated the brief. What specific details would you like to explore?">>]

PastReportGreeting ==
    [role |-> "model",
     content |-> <<"This is a past report. Feel free to ask me any questions about it.">>]

\* A history item that drops the report.
NewHistoryItem_EmptyReport(rr, id, timestamp) ==
    [id |-> id,
     url |-> InputDescriptor(rr.input),
     report |-> <<>>,
     timestamp |-> timestamp,
     pipelineState |-> rr.currentPipelineState,
     analysisResults |-> rr.currentAnalysisResults]

\* The history item of a run: the id and the timestamp are two readings of the clock.
NewHistoryItem(rr, id, timestamp) ==
    [id |-> id,
     url |-> InputDescriptor(rr.input),
     report |-> rr.fullReport,
     timestamp |-> timestamp,
     pipelineState |-> rr.currentPipelineState,
     analysisResults |-> rr.currentAnalysisResults]

\* A completion whose failed save is not caught: it reaches the catch clause.
Complete_SaveOrFail(r) ==
    /\ thread = r
    /\ run[r].pc = "complete"
    /\ \/ \E id \in Now(clock) : \E timestamp \in Now(id) :
          LET item == NewHistoryItem(run[r], id, timestamp)
          IN /\ activeAnalysisId' = item.id
             /\ history' = <<item>> \o history
             /\ localHistory' = <<item>> \o history
             /\ chatSession' = startFollowUpChat(run[r].fullReport)
             /\ chatMessages' = <<NewReportGreeting>>
             /\ isLoading' = FALSE
             /\ clock' = timestamp
             /\ run' = [run EXCEPT ![r] = [@ EXCEPT !.pc = "done", !.outcome = "success"]]
             /\ thread' = "none"
             /\ UNCHANGED <<url, pipelineState, analysisResults, finalReport, error,
                            isChatLoading, compareVars, memory, misinformationWarning,
                            send, ghostVars>>
       \/ LocalStep(r, Throw(run[r], "Failed to save history to localStorage"), r)

\* The history item, the active id, the history (and its best-effort save), the chat
\* session; then the finally clause.
Complete(r) ==
    /\ thread = r
    /\ run[r].pc = "complete"
    /\ \E id \in Now(clock) : \E timestamp \in Now(id) :
          LET item == NewHistoryItem(run[r], id, timestamp)
          IN /\ activeAnalysisId' = item.id
             /\ history' = <<item>> \o history
             /\ \/ localHistory' = <<item>> \o history
                \/ UNCHANGED localHistory          \* localStorage.setItem threw
             /\ clock' = timestamp
    /\ chatSession' = startFollowUpChat(run[r].fullReport)
    /\ chatMessages' = <<NewReportGreeting>>
    /\ isLoading' = FALSE
    /\ run' = [run EXCEPT ![r] = [@ EXCEPT !.pc = "done", !.outcome = "success"]]
    /\ thread' = "none"
    /\ UNCHANGED <<url, pipelineState, analysisResults, finalReport, error, isChatLoading,
                   compareVars, memory, misinformationWarning, send, ghostVars>>

\* ---- catch / finally
\* Object.entries(currentPipelineState).find(...RUNNING): the agent that is Running.
RunningAgents(rr) == {a \in AgentNames : rr.currentPipelineState[a].status = "RUNNING"}

\* A lookup that blames the first stage still Pending when none is Running.
FailedAgentName_FirstUnsettled(rr) ==
    LET open == {a \in AgentNames :
                   rr.currentPipelineState[a].status \in {"RUNNING", "PENDING"}}
    IN IF open = {} THEN "none"
       ELSE AgentOrder[CHOOSE i \in 1..Len(AgentOrder) :
                          /\ AgentOrder[i] \in open
                          /\ \A j \in 1..(i - 1) : AgentOrder[j] \notin open]

FailedAgentName(rr) ==
    IF RunningAgents(rr) = {} THEN "none"
    ELSE AgentOrder[CHOOSE i \in 1..Len(AgentOrder) :
                       /\ AgentOrder[i] \in RunningAgents(rr)
                       /\ \A j \in 1..(i - 1) : AgentOrder[j] \notin RunningAgents(rr)]

ErrorTemplate(agent) ==
    CASE agent = "CONTENT_INGESTION" -> "Content Ingestion failed."
      [] agent = "TEXTUAL_ANALYSIS" -> "Textual Analysis failed."
      [] agent = "EMOTION_ANALYSIS" -> "Emotion Analysis failed."
      [] agent = "VISUAL_ANALYSIS" -> "Visual Analysis failed."
      [] agent = "SOURCE_INTELLIGENCE" -> "Source Intelligence failed."
      [] agent = "FINAL_SYNTHESIS" -> "Final Synthesis failed."
      [] OTHER -> "Pipeline failed"

\* A catch clause that reports the error and marks no stage.
Caught_Unmarked(rr) == rr

\* A catch clause that shows the failed stage alone, on a fresh pipeline state.
Caught_OnlyTheFailure(rr) ==
    LET failed == FailedAgentName(rr)
    IN IF failed = "none" THEN rr
       ELSE updateAndTrackStatus([rr EXCEPT !.currentPipelineState = INITIAL_PIPELINE_STATE],
                                 failed, "ERROR", getFriendlyErrorMessage(rr.err))

\* A catch clause that marks every stage failed.
Caught_ErrorEverywhere(rr) ==
    [rr EXCEPT !.currentPipelineState =
                  [a \in AgentNames |->
                      [status |-> "ERROR", details |-> getFriendlyErrorMessage(rr.err)]]]

\* The locals after the catch clause.
Caught(rr) ==
    LET failed == FailedAgentName(rr)
    IN IF failed = "none" THEN rr
       ELSE updateAndTrackStatus(rr, failed, "ERROR", getFriendlyErrorMessage(rr.err))

\* A catch clause without the finally clause: the loading flag is left as it is.
Catch_WithoutFinally(r) ==
    /\ thread = r
    /\ run[r].pc = "catch"
    /\ LET rr == Caught(run[r])
       IN /\ run' = [run EXCEPT ![r] = [rr EXCEPT !.pc = "done", !.outcome = "failed"]]
          /\ pipelineState' = IF FailedAgentName(run[r]) # "none"
                              THEN rr.currentPipelineState ELSE pipelineState
    /\ error' = [template |-> ErrorTemplate(FailedAgentName(run[r])),
                 details |-> getFriendlyErrorMessage(run[r].err)]
    /\ thread' = "none"
    /\ UNCHANGED <<url, isLoading, analysisResults, finalReport, activeAnalysisId,
                   chatVars, compareVars, storeVars, history, misinformationWarning,
                   send, clock, ghostVars>>

\* A catch clause that files the failed run in the history with what it has.
Catch_FilesTheRun(r) ==
    /\ thread = r
    /\ run[r].pc = "catch"
    /\ LET rr == Caught(run[r])
       IN /\ run' = [run EXCEPT ![r] = [rr EXCEPT !.pc = "done", !.outcome = "failed"]]
          /\ pipelineState' = IF FailedAgentName(run[r]) # "none"
                              THEN rr.currentPipelineState ELSE pipelineState
          /\ history' = <<NewHistoryItem(rr, clock, clock)>> \o history
          /\ activeAnalysisId' = clock
    /\ error' = [template |-> ErrorTemplate(FailedAgentName(run[r])),
                 details |-> getFriendlyErrorMessage(run[r].err)]
    /\ isLoading' = FALSE
    /\ clock' = clock + 1
    /\ thread' = "none"
    /\ UNCHANGED <<url, analysisResults, finalReport, chatVars, compareVars, storeVars,
                   misinformationWarning, send, ghostVars>>

Catch(r) ==
    /\ thread = r
    /\ run[r].pc = "catch"
    /\ LET rr == Caught(run[r])
       IN /\ run' = [run EXCEPT ![r] = [rr EXCEPT !.pc = "done", !.outcome = "failed"]]
          /\ pipelineState' = IF FailedAgentName(run[r]) # "none"
                              THEN rr.currentPipelineState ELSE pipelineState
    /\ error' = [template |-> ErrorTemplate(FailedAgentName(run[r])),
                 details |-> getFriendlyErrorMessage(run[r].err)]
    /\ isLoading' = FALSE
    /\ thread' = "none"
    /\ UNCHANGED <<url, analysisResults, finalReport, activeAnalysisId, chatVars,
                   compareVars, storeVars, history, misinformationWarning, send,
                   clock, ghostVars>>

\* ------------------------------------------------------ handleSelectHistory
\* history.find(h => h.id === id)
HistoryIndex(id) ==
    IF \E i \in 1..Len(history) : history[i].id = id
    THEN CHOOSE i \in 1..Len(history) :
            /\ history[i].id = id
            /\ \A j \in 1..(i - 1) : history[j].id # id
    ELSE 0

\* A selection that shows the item and leaves the chat as it was.
handleSelectHistory_KeepChat(id) ==
    /\ thread = "none"
    /\ IF HistoryIndex(id) = 0
       THEN UNCHANGED vars
       ELSE LET item == history[HistoryIndex(id)]
            IN /\ isLoading' = FALSE
               /\ error' = NoError
               /\ url' = item.url
               /\ finalReport' = Report(item.report)
               /\ pipelineState' = item.pipelineState
               /\ analysisResults' = item.analysisResults
               /\ activeAnalysisId' = item.id
               /\ isCompareMode' = FALSE
               /\ selectedHistoryIds' = <<>>
               /\ showComparisonView' = FALSE
               /\ misinformationWarning' = NoRecord
               /\ abandoned' = abandoned \cup RunsUnderWay
               /\ UNCHANGED <<chatVars, isComparing, comparisonReport, compare,
                              storeVars, history, run, thread, send, clock, lastUpsert>>

handleSelectHistory(id) ==
    /\ thread = "none"
    /\ IF HistoryIndex(id) = 0
       THEN UNCHANGED vars
       ELSE LET item == history[HistoryIndex(id)]
            IN /\ isLoading' = FALSE
               /\ error' = NoError
               /\ url' = item.url
               /\ finalReport' = Report(item.report)
               /\ pipelineState' = item.pipelineState
               /\ analysisResults' = item.analysisResults
               /\ activeAnalysisId' = item.id
               /\ IF item.report # <<>>
                  THEN /\ chatSession' = startFollowUpChat(item.report)
                       /\ chatMessages' = <<PastReportGreeting>>
                  ELSE /\ chatSession' = NoSession
                       /\ chatMessages' = <<>>
               /\ isCompareMode' = FALSE
               /\ selectedHistoryIds' = <<>>
               /\ showComparisonView' = FALSE
               /\ misinformationWarning' = NoRecord
               /\ abandoned' = abandoned \cup RunsUnderWay
               /\ UNCHANGED <<isChatLoading, isComparing, comparisonReport, compare,
                              storeVars, history, run, thread, send, clock, lastUpsert>>

\* --------------------------------------------------- handleSendChatMessage
ChatMessagesToSend == {"What is the risk?"}

\* FollowUpChat is rendered, so onSendMessage can be invoked: the main column is
\* shown (not the comparison view) with a report, no run loading and a session.
ChatVisible ==
    /\ ~showComparisonView
    /\ ~finalReport.null
    /\ finalReport.text # <<>>
    /\ ~isLoading
    /\ chatSession # NoSession

\* An updater that keeps the latest chunk only.
SetLastModelContent_LatestChunk(prev, content) ==
    IF Len(prev) > 0 /\ prev[Len(prev)].role = "model"
    THEN [prev EXCEPT ![Len(prev)].content =
             IF content = <<>> THEN <<>> ELSE <<content[Len(content)]>>]
    ELSE prev

\* setChatMessages(prev => ...): the last entry, when it is a model entry, gets the content.
SetLastModelContent(prev, content) ==
    IF Len(prev) > 0 /\ prev[Len(prev)].role = "model"
    THEN [prev EXCEPT ![Len(prev)].content = content]
    ELSE prev

ChatErrorContent(err) == <<"Sorry, an error occurred: ", getFriendlyErrorMessage(err)>>

\* The handler is entered: the guard, isChatLoading, the user message, and the
\* stream of the session of this render is requested and awaited.
SendChatMessage(s, message) ==
    /\ thread = "none"
    /\ ChatVisible
    /\ send[s].pc = "idle"
    /\ IF chatSession = NoSession \/ isChatLoading
       THEN UNCHANGED vars
       ELSE /\ isChatLoading' = TRUE
            /\ chatMessages' = Append(chatMessages, [role |-> "user", content |-> <<message>>])
            /\ send' = [send EXCEPT ![s] = [pc |-> "open", session |-> chatSession,
                                            message |-> message, modelResponse |-> <<>>]]
            /\ UNCHANGED <<viewVars, chatSession, compareVars, storeVars, history,
                           misinformationWarning, run, thread, clock, ghostVars>>

\* sendMessageStream resolves: the placeholder model entry is appended.
ChatOpened(s) ==
    /\ thread = "none"
    /\ send[s].pc = "open"
    /\ chatMessages' = Append(chatMessages, [role |-> "model", content |-> <<>>])
    /\ send' = [send EXCEPT ![s].pc = "stream"]
    /\ UNCHANGED <<viewVars, chatSession, isChatLoading, compareVars, storeVars, history,
                   misinformationWarning, run, thread, clock, ghostVars>>

ChatChunk(s) ==
    /\ thread = "none"
    /\ send[s].pc = "stream"
    /\ Len(send[s].modelResponse) < MaxChunks
    /\ LET modelResponse == Append(send[s].modelResponse,
                                   StreamChunks[Len(send[s].modelResponse) + 1])
       IN /\ send' = [send EXCEPT ![s].modelResponse = modelResponse]
          /\ chatMessages' = SetLastModelContent(chatMessages, modelResponse)
    /\ UNCHANGED <<viewVars, chatSession, isChatLoading, compareVars, storeVars, history,
                   misinformationWarning, run, thread, clock, ghostVars>>

\* The stream ends: the finally clause.
ChatDone(s) ==
    /\ thread = "none"
    /\ send[s].pc = "stream"
    /\ isChatLoading' = FALSE
    /\ send' = [send EXCEPT ![s] = IdleSend]
    /\ UNCHANGED <<viewVars, chatSession, chatMessages, compareVars, storeVars, history,
                   misinformationWarning, run, thread, clock, ghostVars>>

\* sendMessageStream rejects, or the stream throws: the catch and finally clauses.
ChatFailed(s) ==
    /\ thread = "none"
    /\ send[s].pc \in {"open", "stream"}
    /\ chatMessages' = SetLastModelContent(chatMessages, ChatErrorContent(ModelError))
    /\ isChatLoading' = FALSE
    /\ send' = [send EXCEPT ![s] = IdleSend]
    /\ UNCHANGED <<viewVars, chatSession, compareVars, storeVars, history,
                   misinformationWarning, run, thread, clock, ghostVars>>

\* ------------------------------------------------------ history comparison
handleToggleCompareMode ==
    /\ thread = "none"
    /\ isCompareMode' = ~isCompareMode
    /\ selectedHistoryIds' = <<>>
    /\ UNCHANGED <<viewVars, chatVars, isComparing, comparisonReport, showComparisonView,
                   compare, storeVars, history, misinformationWarning, run, thread, send,
                   clock, ghostVars>>

\* prev.includes(id) ? prev.filter(i => i !== id) : [...prev, id]
ToggleSelected(prev, id) ==
    IF \E i \in 1..Len(prev) : prev[i] = id
    THEN SelectSeq(prev, LAMBDA i : i # id)
    ELSE Append(prev, id)

handleSelectItemForCompare(id) ==
    /\ thread = "none"
    /\ selectedHistoryIds' = ToggleSelected(selectedHistoryIds, id)
    /\ UNCHANGED <<viewVars, chatVars, isCompareMode, isComparing, comparisonReport,
                   showComparisonView, compare, storeVars, history, misinformationWarning,
                   run, thread, send, clock, ghostVars>>

\* history.filter(item => selectedHistoryIds.includes(item.id))
ReportsToCompare ==
    SelectSeq(history,
              LAMBDA item : \E i \in 1..Len(selectedHistoryIds) :
                               selectedHistoryIds[i] = item.id)

\* The chunks generateComparisonBrief yields to an activation, in order.
CompareChunks(c) ==
    IF c = "c1" THEN <<"p", "q", "r", "s">> ELSE <<"w", "x", "y", "z">>

\* A handler without the guard on the selection.
handleRunComparison_Unguarded(c) ==
    /\ thread = "none"
    /\ compare[c].pc \in {"idle", "returned"}
    /\ isComparing' = TRUE
    /\ comparisonReport' = Report(<<>>)
    /\ error' = NoError
    /\ compare' = [compare EXCEPT ![c] = [pc |-> "stream",
                                          reportsToCompare |-> ReportsToCompare,
                                          fullBrief |-> <<>>]]
    /\ UNCHANGED <<url, isLoading, pipelineState, analysisResults, finalReport,
                   activeAnalysisId, chatVars, isCompareMode, selectedHistoryIds,
                   showComparisonView, storeVars, history, misinformationWarning,
                   run, thread, send, clock, ghostVars>>

\* The handler is entered: the guard (the activation returns at once), isComparing,
\* the empty brief, the error is cleared, the stream is created and its first chunk
\* awaited.
handleRunComparison(c) ==
    /\ thread = "none"
    /\ compare[c].pc \in {"idle", "returned"}
    /\ IF Len(selectedHistoryIds) < 2
       THEN /\ compare' = [compare EXCEPT ![c].pc = "returned"]
            /\ UNCHANGED <<viewVars, chatVars, isCompareMode, selectedHistoryIds,
                           isComparing, comparisonReport, showComparisonView, storeVars,
                           history, misinformationWarning, run, thread, send, clock,
                           ghostVars>>
       ELSE /\ isComparing' = TRUE
            /\ comparisonReport' = Report(<<>>)
            /\ error' = NoError
            /\ compare' = [compare EXCEPT ![c] = [pc |-> "stream",
                                                  reportsToCompare |-> ReportsToCompare,
                                                  fullBrief |-> <<>>]]
            /\ UNCHANGED <<url, isLoading, pipelineState, analysisResults, finalReport,
                           activeAnalysisId, chatVars, isCompareMode, selectedHistoryIds,
                           showComparisonView, storeVars, history, misinformationWarning,
                           run, thread, send, clock, ghostVars>>

\* A chunk arrives: fullBrief += chunk, setComparisonReport(prev => (prev ?? '') + chunk).
CompareChunk(c) ==
    /\ thread = "none"
    /\ compare[c].pc = "stream"
    /\ Len(compare[c].fullBrief) < MaxChunks
    /\ LET chunk == CompareChunks(c)[Len(compare[c].fullBrief) + 1]
       IN /\ compare' = [compare EXCEPT ![c].fullBrief = Append(@, chunk)]
          /\ comparisonReport' = AppendChunk(comparisonReport, chunk)
    /\ UNCHANGED <<viewVars, chatVars, isCompareMode, selectedHistoryIds, isComparing,
                   showComparisonView, storeVars, history, misinformationWarning, run,
                   thread, send, clock, ghostVars>>

\* The stream ends: the comparison view is shown; then the finally clause.
CompareEnd(c) ==
    /\ thread = "none"
    /\ compare[c].pc = "stream"
    /\ showComparisonView' = TRUE
    /\ isCompareMode' = FALSE
    /\ isComparing' = FALSE
    /\ compare' = [compare EXCEPT ![c].pc = "done"]
    /\ UNCHANGED <<viewVars, chatVars, selectedHistoryIds, comparisonReport, storeVars,
                   history, misinformationWarning, run, thread, send, clock, ghostVars>>

\* The stream throws: the catch and finally clauses.
CompareFail(c) ==
    /\ thread = "none"
    /\ compare[c].pc = "stream"
    /\ error' = [template |-> "Comparison failed",
                 details |-> getFriendlyErrorMessage(ModelError)]
    /\ isCompareMode' = FALSE
    /\ selectedHistoryIds' = <<>>
    /\ isComparing' = FALSE
    /\ compare' = [compare EXCEPT ![c].pc = "failed"]
    /\ UNCHANGED <<url, isLoading, pipelineState, analysisResults, finalReport,
                   activeAnalysisId, chatVars, comparisonReport, showComparisonView,
                   storeVars, history, misinformationWarning, run, thread, send, clock,
                   ghostVars>>

\* ComparisonReportDisplay's onBack: the view is left, then handleNewAnalysis. The
\* Back button exists while the comparison view is shown with a brief: the component
\* renders nothing for a null brief.
handleExitComparisonView ==
    /\ showComparisonView
    /\ ~comparisonReport.null
    /\ handleNewAnalysis

\* ------------------------------------------------------------ specification
RunInFlight(r) == run[r].pc \notin {"idle", "done"}

FreeSend == CHOOSE s \in Sends : send[s].pc = "idle"

RunStep(r) ==
    \/ LookupDone(r) \/ Begin(r) \/ ReadImageDone(r)
    \/ Ingest(r) \/ IngestText(r) \/ IngestDone(r)
    \/ Textual(r) \/ TextualStart(r) \/ TextualDone(r)
    \/ Emotion(r) \/ EmotionStart(r) \/ EmotionDone(r)
    \/ Visual(r) \/ VisualStart(r) \/ FramesDone(r) \/ VisualDone(r)
    \/ Source(r) \/ SourceStart(r) \/ SourceDone(r) \/ UpsertDone(r)
    \/ Final(r) \/ FinalStart(r) \/ StreamChunk(r) \/ StreamEnd(r) \/ StreamFail(r)
    \/ Complete(r) \/ Catch(r)

UserMessages == Len(SelectSeq(chatMessages, LAMBDA m : m.role = "user"))

ChatStep(s) == ChatOpened(s) \/ ChatChunk(s) \/ ChatDone(s) \/ ChatFailed(s)

\* Nothing is in flight: no activation of handleRunPipeline or handleSendChatMessage
\* is pending. It is no guard of the code, whose sidebar handlers are always
\* available: the specifications that ask for it describe a user who waits for a run
\* or a reply to end before acting again, and SpecAbandon, SpecChat and SpecCompare
\* describe the user who does not.
Quiet ==
    /\ thread = "none"
    /\ \A r \in Runs : ~RunInFlight(r)
    /\ \A s \in Sends : send[s].pc = "idle"

\* The locals of a raw-text run that went through, as Complete snapshots them.
TextRunLocals(report) ==
    LET r0 == [IdleRun EXCEPT !.input.textInput = "some text", !.fullReport = report]
        r1 == updateAndTrackStatus(WithIngestion(r0, "some text", ""),
                                   "CONTENT_INGESTION", "COMPLETED", "Text processed")
        r2 == updateAndTrackStatus([r1 EXCEPT !.currentAnalysisResults.textual = TRUE],
                                   "TEXTUAL_ANALYSIS", "COMPLETED",
                                   "Summary and entities extracted")
        r3 == updateAndTrackStatus([r2 EXCEPT !.currentAnalysisResults.emotion = TRUE],
                                   "EMOTION_ANALYSIS", "COMPLETED", "Emotion: fear")
        r4 == updateAndTrackStatus(r3, "VISUAL_ANALYSIS", "SKIPPED",
                                   "No visual media uploaded")
        r5 == updateAndTrackStatus(r4, "SOURCE_INTELLIGENCE", "SKIPPED",
                                   "No domain to verify")
    IN updateAndTrackStatus(r5, "FINAL_SYNTHESIS", "COMPLETED",
                            "Brief generated successfully")

\* localStorage after an earlier run.
StoredHistory == <<NewHistoryItem(TextRunLocals(<<"a", "b">>), 1, 1)>>

\* The mounts of a session without a history to show: localStorage holds nothing, or
\* it holds the history of an earlier run and getItem throws, or it holds text that
\* JSON.parse rejects.
Mounts ==
    {[stored |-> <<>>, getItemWorks |-> TRUE],
     [stored |-> StoredHistory, getItemWorks |-> FALSE],
     [stored |-> CorruptStore, getItemWorks |-> TRUE]}

\* ---- Spec: one submission, with a user who acts only when nothing is in flight.
\* A run starts with resetAnalysisState and reads no React state, so what an
\* earlier run leaves to it is the memory and the history: Init supplies them.
Next ==
    \/ \E in \in Submissions : Quiet /\ Submit("r1", in)
    \/ RunStep("r1")
    \/ Quiet /\ handleNewAnalysis
    \/ Quiet /\ handleClearHistory
    \/ \E id \in 1..clock : Quiet /\ handleSelectHistory(id)
    \/ DismissWarning

\* A first visit, or a return to a memory an earlier session wrote and to a stored
\* history the mount could not load.
Init ==
    \E storedMemory \in StoredMemories, mount \in Mounts :
       InitWith(storedMemory, mount.stored, mount.getItemWorks)

Spec == Init /\ [][Next]_vars

\* ---- SpecAbandon: two submissions of raw text, with a user who does not wait.
\* The submit form is given isLoading (line 590), so a submission needs isLoading
\* false.
AbandonSubmissions ==
    {in \in Submissions : /\ in.url = NoUrl /\ in.textInput # ""
                          /\ in.imageFile = NoFile /\ in.videoFile = NoFile}

\* The steps a run of raw text can take.
TextRunStep(r) ==
    \/ Begin(r) \/ Ingest(r) \/ IngestText(r)
    \/ Textual(r) \/ TextualStart(r) \/ TextualDone(r)
    \/ Emotion(r) \/ EmotionStart(r) \/ EmotionDone(r)
    \/ Visual(r) \/ Source(r)
    \/ Final(r) \/ FinalStart(r) \/ StreamChunk(r) \/ StreamEnd(r) \/ StreamFail(r)
    \/ Complete(r) \/ Catch(r)

NextAbandon ==
    \/ \E r \in Runs, in \in AbandonSubmissions :
          /\ ~isLoading
          /\ r = "r1" \/ run["r1"].pc # "idle"       \* the activations are taken in order
          /\ Submit(r, in)
    \/ \E r \in Runs : TextRunStep(r)
    \/ handleNewAnalysis
    \/ handleClearHistory
    \/ \E id \in 1..clock : handleSelectHistory(id)

InitAbandon == InitWith({}, <<>>, TRUE)

SpecAbandon == InitAbandon /\ [][NextAbandon]_vars

\* ---- SpecChat: follow-up chats on the reports of a stored history, with a user
\* who does not wait for a reply before acting.
InitChat == InitWith({}, StoredHistory, TRUE)

NextChat ==
    \/ \E id \in 1..clock : handleSelectHistory(id)
    \/ handleNewAnalysis
    \/ \E message \in ChatMessagesToSend :
          /\ \E s \in Sends : send[s].pc = "idle"
          /\ UserMessages < MaxUserMessages
          /\ SendChatMessage(FreeSend, message)
    \/ \E s \in Sends : ChatStep(s)

SpecChat == InitChat /\ [][NextChat]_vars

\* localStorage after two earlier runs, the newest first.
StoredHistoryOfTwo ==
    <<NewHistoryItem(TextRunLocals(<<"c", "d">>), 2, 2),
      NewHistoryItem(TextRunLocals(<<"a", "b">>), 1, 1)>>

\* ---- SpecChatTurns: follow-up chats on the reports of a stored history of two, with
\* a user who waits for the reply before acting again.
InitChatTurns == InitWith({}, StoredHistoryOfTwo, TRUE)

NextChatTurns ==
    \/ \E id \in 1..clock : Quiet /\ handleSelectHistory(id)
    \/ Quiet /\ handleNewAnalysis
    \/ \E message \in ChatMessagesToSend :
          /\ Quiet
          /\ UserMessages < MaxUserMessages
          /\ SendChatMessage("s1", message)
    \/ ChatStep("s1")

SpecChatTurns == InitChatTurns /\ [][NextChatTurns]_vars

\* ---- SpecCompare: comparisons over a stored history of two reports, with a user
\* who does not wait for the brief before acting. The sidebar is given isComparing, so
\* a comparison is asked for while isComparing is false.
InitCompare == InitWith({}, StoredHistoryOfTwo, TRUE)

CompareStep(c) == CompareChunk(c) \/ CompareEnd(c) \/ CompareFail(c)

NextCompare ==
    \/ handleToggleCompareMode
    \/ \E i \in 1..Len(history) : handleSelectItemForCompare(history[i].id)
    \/ \E c \in Compares :
          /\ ~isComparing
          /\ c = "c1" \/ compare["c1"].pc \notin {"idle", "returned"}  \* taken in order
          /\ handleRunComparison(c)
    \/ \E c \in Compares : CompareStep(c)
    \/ handleExitComparisonView
    \/ handleNewAnalysis
    \/ \E id \in 1..clock : handleSelectHistory(id)

SpecCompare == InitCompare /\ [][NextCompare]_vars

\* ---- SpecLive: comparisons, one submission and follow-up chats over a stored
\* history of two reports, with a user who acts only when nothing is in flight, and
\* with every timer, call of a service and stream coming to an end: a flow whose next
\* step stays possible takes it. The one exception is extractFramesFromVideo, the
\* program's own promise, which settles on the events of the video element and is
\* left pending for ever when the canvas has no 2d context. The submit form is
\* rendered outside the comparison view (line 569) and is given isLoading (line 590).
NothingInFlight ==
    /\ Quiet
    /\ \A c \in Compares : compare[c].pc # "stream"

\* The user compares first, then submits, then chats about the new report.
BeforeSubmission == NothingInFlight /\ run["r1"].pc = "idle"

InitLive == InitWith({}, StoredHistoryOfTwo, TRUE)

\* One submission for every way through the stages: a URL, raw text, an image with
\* text, a video alone.
LiveSubmissions ==
    {in \in Submissions :
        \/ /\ in.url = <<"https", "y.org", "/b">> /\ in.textInput = ""
           /\ in.imageFile = NoFile /\ in.videoFile = NoFile
        \/ /\ in.url = NoUrl /\ in.textInput # ""
           /\ in.imageFile = NoFile /\ in.videoFile = NoFile
        \/ /\ in.url = NoUrl /\ in.textInput # ""
           /\ in.imageFile # NoFile /\ in.videoFile = NoFile
        \/ /\ in.url = NoUrl /\ in.textInput = ""
           /\ in.imageFile = NoFile /\ in.videoFile # NoFile}

NextLive ==
    \/ \E in \in LiveSubmissions :
          /\ NothingInFlight /\ ~showComparisonView /\ ~isLoading
          /\ Submit("r1", in)
    \/ RunStep("r1")
    \/ \E message \in ChatMessagesToSend :
          /\ NothingInFlight /\ ~showComparisonView
          /\ UserMessages = 0                        \* one question about the report
          /\ SendChatMessage("s1", message)
    \/ ChatStep("s1")
    \/ BeforeSubmission /\ handleToggleCompareMode
    \/ \E i \in 1..Len(history) :
          BeforeSubmission /\ handleSelectItemForCompare(history[i].id)
    \/ BeforeSubmission /\ ~isComparing /\ handleRunComparison("c1")
    \/ CompareStep("c1")
    \/ BeforeSubmission /\ handleExitComparisonView

\* The steps of a run that the event loop takes once they are possible: all of them
\* but the settling of the frame extraction.
SettlingRunStep(r) ==
    \/ LookupDone(r) \/ Begin(r) \/ ReadImageDone(r)
    \/ Ingest(r) \/ IngestText(r) \/ IngestDone(r)
    \/ Textual(r) \/ TextualStart(r) \/ TextualDone(r)
    \/ Emotion(r) \/ EmotionStart(r) \/ EmotionDone(r)
    \/ Visual(r) \/ VisualStart(r) \/ VisualDone(r)
    \/ Source(r) \/ SourceStart(r) \/ SourceDone(r) \/ UpsertDone(r)
    \/ Final(r) \/ FinalStart(r) \/ StreamChunk(r) \/ StreamEnd(r) \/ StreamFail(r)
    \/ Complete(r) \/ Catch(r)

SpecLive ==
    /\ InitLive /\ [][NextLive]_vars
    /\ WF_vars(SettlingRunStep("r1"))
    /\ WF_vars(ChatStep("s1"))
    /\ WF_vars(CompareStep("c1"))

\* ---- SpecRevisit: two submissions of URLs, one after the other, over an empty
\* memory and a store that works: a lookup resolves with the record of the domain
\* when there is one, and an upsert stores its record.
UrlSubmissions ==
    {in \in Submissions : /\ in.url # NoUrl /\ in.textInput = ""
                          /\ in.imageFile = NoFile /\ in.videoFile = NoFile}

StoreWorks ==
    \A r \in Runs :
       /\ (run[r].pc = "lookup" /\ run'[r].pc # "lookup") =>
             \/ misinformationWarning' # NoRecord
             \/ \A m \in memory : m.domain # Hostname(run[r].input.url)
       /\ (run[r].pc = "awaitUpsert" /\ run'[r].pc # "awaitUpsert") =>
             run[r].record \in memory'

\* The steps a run on a URL alone can take, apart from the two that use the store.
UrlRunStep(r) ==
    \/ Begin(r) \/ Ingest(r) \/ IngestDone(r)
    \/ Textual(r) \/ TextualStart(r) \/ TextualDone(r)
    \/ Emotion(r) \/ EmotionStart(r) \/ EmotionDone(r)
    \/ Visual(r)
    \/ Source(r) \/ SourceStart(r) \/ SourceDone(r)
    \/ Final(r) \/ FinalStart(r) \/ StreamChunk(r) \/ StreamEnd(r) \/ StreamFail(r)
    \/ Complete(r) \/ Catch(r)

InitRevisit == InitWith({}, <<>>, TRUE)

NextRevisit ==
    \/ \E r \in Runs, in \in UrlSubmissions :
          /\ Quiet /\ ~isLoading
          /\ r = "r1" \/ run["r1"].pc # "idle"       \* the activations are taken in order
          /\ Submit(r, in)
    \/ \E r \in Runs : LookupDone(r) /\ StoreWorks
    \/ \E r \in Runs : UpsertDone(r) /\ StoreWorks
    \/ \E r \in Runs : UrlRunStep(r)
    \/ DismissWarning

SpecRevisit == InitRevisit /\ [][NextRevisit]_vars


\* ------------------------------------------------------------------ claims
StatusOf(rr, agent) == rr.currentPipelineState[agent].status

Earlier(a, b) == AgentIndex(a) < AgentIndex(b)

\* C1: within one run the stages are driven one at a time in the fixed order
\* Ingestion, TextualAnalysis, EmotionAnalysis, VisualAnalysis, SourceIntelligence,
\* FinalSynthesis: at most one stage is Running at any moment, and a stage leaves
\* Pending only when every earlier stage is already Completed, Skipped or Error.
C1_OneStageAtATimeInOrder ==
    [][\A r \in Runs :
          /\ Cardinality({a \in AgentNames : StatusOf(run'[r], a) = "RUNNING"}) <= 1
          /\ \A a \in AgentNames :
                (StatusOf(run[r], a) = "PENDING" /\ StatusOf(run'[r], a) # "PENDING")
                => \A b \in AgentNames :
                      Earlier(b, a) => StatusOf(run[r], b) \in TerminalStatuses]_vars

\* A later stage is Running after the earlier ones ended.
C1_Witness ==
    \E r \in Runs :
       /\ StatusOf(run[r], "CONTENT_INGESTION") = "COMPLETED"
       /\ StatusOf(run[r], "TEXTUAL_ANALYSIS") = "COMPLETED"
       /\ StatusOf(run[r], "EMOTION_ANALYSIS") = "RUNNING"

\* C2, as claimed: once a run has finished, successful or failed, every one of the
\* six stages is Completed, Skipped or Error; none is left Pending or Running.
C2_EveryStageTerminalAfterAnyRun ==
    \A r \in Runs :
       run[r].pc = "done" => \A a \in AgentNames : StatusOf(run[r], a) \in TerminalStatuses

\* C2, amended: once a run has finished no stage is Running; after a successful run
\* every stage is Completed or Skipped; after a failed run the stages that were not
\* reached are still Pending.
C2_NoStageRunningAfterRun ==
    \A r \in Runs :
       run[r].pc = "done" =>
          /\ \A a \in AgentNames : StatusOf(run[r], a) # "RUNNING"
          /\ run[r].outcome = "success" =>
                \A a \in AgentNames : StatusOf(run[r], a) \in {"COMPLETED", "SKIPPED"}
          /\ run[r].outcome = "failed" =>
                /\ StatusOf(run[r], "FINAL_SYNTHESIS") \in {"PENDING", "ERROR"}
                /\ \A a, b \in AgentNames :
                      (Earlier(a, b) /\ StatusOf(run[r], a) \in {"PENDING", "ERROR"})
                      => StatusOf(run[r], b) = "PENDING"

\* A successful run has finished, with skipped stages among its six.
C2_Witness ==
    \E r \in Runs :
       /\ run[r].pc = "done"
       /\ run[r].outcome = "success"
       /\ StatusOf(run[r], "SOURCE_INTELLIGENCE") = "SKIPPED"
       /\ StatusOf(run[r], "FINAL_SYNTHESIS") = "COMPLETED"

\* C3: when a stage's work throws while the stage is Running, the catch clause makes
\* that stage Error with the translated message and leaves every other stage as it
\* was: the later stages are Pending, the earlier ones Completed or Skipped; the run
\* then takes no further step, so no later stage is attempted.
C3_ThrowMarksTheRunningStageOnly ==
    [][\A r \in Runs :
          /\ (run[r].pc = "catch" /\ run'[r].pc = "done") =>
                /\ \A a \in AgentNames :
                      run'[r].currentPipelineState[a] =
                         IF StatusOf(run[r], a) = "RUNNING"
                         THEN [status |-> "ERROR",
                               details |-> getFriendlyErrorMessage(run[r].err)]
                         ELSE run[r].currentPipelineState[a]
                /\ run'[r].outcome = "failed"
          /\ run'[r].pc = "catch" =>
                \A a, b \in AgentNames :
                   (StatusOf(run'[r], a) = "RUNNING" /\ a # b) =>
                      StatusOf(run'[r], b) = IF Earlier(a, b) THEN "PENDING"
                                             ELSE StatusOf(run[r], b)
          /\ run'[r].pc = "catch" =>
                \A a, b \in AgentNames :
                   (StatusOf(run'[r], a) = "RUNNING" /\ Earlier(b, a)) =>
                      StatusOf(run'[r], b) \in {"COMPLETED", "SKIPPED"}
          /\ run[r].pc = "done" => run'[r] = run[r]]_vars

\* Textual analysis threw: it is Error, ingestion is still Completed, the rest Pending.
C3_Witness ==
    \E r \in Runs :
       /\ run[r].pc = "done"
       /\ run[r].err = ModelError
       /\ StatusOf(run[r], "CONTENT_INGESTION") = "COMPLETED"
       /\ run[r].currentPipelineState["TEXTUAL_ANALYSIS"] =
             [status |-> "ERROR", details |-> getFriendlyErrorMessage(ModelError)]
       /\ \A a \in AgentNames :
             Earlier("TEXTUAL_ANALYSIS", a) => StatusOf(run[r], a) = "PENDING"

\* C4: FinalSynthesis is never Running (nor past it) unless a textual or a visual
\* result is present; a run that reaches the synthesis step with neither fails with
\* the no-data error while FinalSynthesis is still Pending and no stream was started.
C4_SynthesisNeedsData ==
    \A r \in Runs :
       LET hasData == run[r].currentAnalysisResults.textual
                      \/ run[r].currentAnalysisResults.visual
       IN /\ StatusOf(run[r], "FINAL_SYNTHESIS") # "PENDING" => hasData
          /\ run[r].pc \in {"delayFinal", "stream", "complete"} => hasData
          /\ (run[r].pc \in {"catch", "done"} /\ ~hasData
              /\ \A a \in AgentNames \ {"FINAL_SYNTHESIS"} :
                    StatusOf(run[r], a) \in {"COMPLETED", "SKIPPED"})
             => /\ run[r].err = NoDataError
                /\ run[r].outcome # "success"
                /\ StatusOf(run[r], "FINAL_SYNTHESIS") = "PENDING"
                /\ run[r].fullReport = <<>>

\* A URL whose ingestion found no text, and no media: the run ended on the no-data
\* error with FinalSynthesis Pending.
C4_Witness ==
    \E r \in Runs :
       /\ run[r].pc = "done"
       /\ run[r].err = NoDataError
       /\ StatusOf(run[r], "CONTENT_INGESTION") = "COMPLETED"
       /\ StatusOf(run[r], "SOURCE_INTELLIGENCE") = "COMPLETED"
       /\ StatusOf(run[r], "FINAL_SYNTHESIS") = "PENDING"

\* C9: the write threshold is strictly below 40: when SourceIntelligence completes
\* with trust_score < 40 an upsert keyed by the ingestion domain is issued, with
\* trust_score >= 40 none is, and the memory is written by no other step.
C9_WriteBelowFortyOnly ==
    [][/\ \A r \in Runs :
             LET source == run'[r].currentAnalysisResults.source
             IN /\ (run[r].pc = "awaitSource" /\ run'[r].pc \notin {"awaitSource", "catch"})
                   => /\ StatusOf(run'[r], "SOURCE_INTELLIGENCE") = "COMPLETED"
                      /\ source.trust_score < 40 =>
                            /\ run'[r].pc = "awaitUpsert"
                            /\ run'[r].record.domain =
                                  run'[r].currentAnalysisResults.ingestion.domain
                            /\ run'[r].record.trustScore = source.trust_score
                      /\ source.trust_score >= 40 =>
                            /\ run'[r].pc = "final"
                            /\ run'[r].record = NoRecord
                /\ (run'[r].pc = "awaitUpsert" /\ run[r].pc # "awaitUpsert")
                   => run[r].pc = "awaitSource"
       /\ memory' # memory =>
             \E r \in Runs : /\ run[r].pc = "awaitUpsert"
                             /\ run[r].record.trustScore < 40
                             /\ run[r].record \in memory']_vars

\* Both sides of the boundary: an upsert is awaited for a score of 39.
C9_Witness ==
    \E r \in Runs :
       /\ run[r].pc = "awaitUpsert"
       /\ run[r].currentAnalysisResults.source.trust_score = 39
       /\ run[r].record.domain = "y.org"

\* C10: the memory holds at most one record per domain, and a lookup of a domain
\* returns the record of the most recent upsert stored for it; the lookup of the
\* orchestrator sets the warning to nothing else.
C10_OneRecordPerDomainLatestWins ==
    /\ [](/\ \A m1, m2 \in memory : m1.domain = m2.domain => m1 = m2
          /\ \A d \in Domains : getMisinformationRecordByDomain(memory, d) = lastUpsert[d])
    /\ [][\A r \in Runs :
             (run[r].pc = "lookup" /\ run'[r].pc = "begin") =>
                misinformationWarning' \in
                   {misinformationWarning, lastUpsert[Hostname(run[r].input.url)]}]_vars

\* A second upsert for x.com was stored over the record of the earlier session.
C10_Witness ==
    /\ lastUpsert["x.com"].timestamp > 1
    /\ lastUpsert["x.com"].trustScore = 39
    /\ \E m \in memory : m.domain = "x.com"
    /\ \E r \in Runs : run[r].pc = "final"

\* C5, as claimed: the steps of a run the user has abandoned (a new analysis, a
\* history selection or a clear while it was under way) change nothing of the
\* displayed pipeline state, results, report, active id, chat session and transcript.
C5_AbandonedRunIsIgnored ==
    [][\A r \in abandoned :
          run'[r] # run[r] =>
             UNCHANGED <<pipelineState, analysisResults, finalReport, activeAnalysisId,
                         chatSession, chatMessages>>]_vars

\* The pcs at which a run is suspended at an await: the lookup in the memory, the
\* reading of the image, a model call, the frame extraction, a cooldown, the upsert or
\* a stream chunk.
AwaitingPcs ==
    {"lookup", "readImage", "awaitIngest", "delayTextual", "awaitTextual", "delayEmotion", "awaitEmotion",
     "delayVisual", "awaitFrames", "awaitVisual", "delaySource", "awaitSource",
     "awaitUpsert", "delayFinal", "stream"}

\* C7, as claimed: two runs are never both suspended at an await.
C7_OneRunAtATime ==
    Cardinality({r \in Runs : run[r].pc \in AwaitingPcs}) <= 1

\* C6, as claimed: a send whose session is no longer the current one (the user
\* started a new analysis or selected a history item while it streamed) never
\* changes the transcript: not by its placeholder, its chunks or its error text.
C6_DiscardedSendIsIgnored ==
    [][\A s \in Sends :
          (send[s].pc # "idle" /\ send[s].session # chatSession /\ send'[s] # send[s])
             => chatMessages' = chatMessages]_vars

\* C8, as claimed: at most one send is in flight on a given session.
C8_OneSendPerSession ==
    \A s1, s2 \in Sends :
       (s1 # s2 /\ send[s1].pc # "idle" /\ send[s2].pc # "idle")
          => send[s1].session # send[s2].session

\* C11, as claimed: the memory is read only before the stages of a run start, and an
\* upsert is issued only by a run that has finished FinalSynthesis successfully.
C11_WriteOnlyAfterCompletedRun ==
    \A r \in Runs :
       /\ run[r].pc = "lookup" => run[r].currentPipelineState = INITIAL_PIPELINE_STATE
       /\ run[r].record # NoRecord =>
             /\ StatusOf(run[r], "FINAL_SYNTHESIS") = "COMPLETED"
             /\ run[r].outcome = "success"

\* C11, amended: the memory is read only by the lookup that precedes the stages of a
\* run, and an upsert is issued only right after SourceIntelligence has Completed with
\* a score below the threshold, while FinalSynthesis is still Pending; whether the run
\* later succeeds or fails plays no part.
C11_ReadBeforeStagesWriteAfterSource ==
    /\ [](\A r \in Runs :
             /\ run[r].pc = "lookup" =>
                   /\ run[r].currentPipelineState = INITIAL_PIPELINE_STATE
                   /\ run[r].currentAnalysisResults = EmptyResults
             /\ run[r].record # NoRecord =>
                   /\ StatusOf(run[r], "SOURCE_INTELLIGENCE") = "COMPLETED"
                   /\ run[r].currentAnalysisResults.source.trust_score
                         < MISINFORMATION_THRESHOLD
                   /\ run[r].pc \notin {"idle", "lookup", "begin", "readImage", "ingest",
                                        "ingestText", "awaitIngest", "textual",
                                        "delayTextual", "awaitTextual", "emotion",
                                        "delayEmotion", "awaitEmotion", "visual",
                                        "delayVisual", "awaitFrames", "awaitVisual",
                                        "source", "delaySource", "awaitSource"}
             /\ run[r].pc = "awaitUpsert" =>
                   /\ run[r].record # NoRecord
                   /\ StatusOf(run[r], "FINAL_SYNTHESIS") = "PENDING")
    /\ [][/\ misinformationWarning' \notin {misinformationWarning, NoRecord} =>
                \E r \in Runs :
                   /\ run[r].pc = "lookup"
                   /\ misinformationWarning' =
                         getMisinformationRecordByDomain(memory, Hostname(run[r].input.url))
          /\ memory' # memory =>
                \E r \in Runs : /\ run[r].pc = "awaitUpsert"
                                /\ run'[r].pc = "final"
                                /\ memory' = addMisinformationRecord(memory, run[r].record)]_vars

\* A run stored its record and then failed: the record is in the memory, the run
\* ended with an error.
C11_Witness ==
    \E r \in Runs :
       /\ run[r].pc = "done"
       /\ run[r].outcome = "failed"
       /\ run[r].record # NoRecord
       /\ run[r].record \in memory
       /\ StatusOf(run[r], "FINAL_SYNTHESIS") \in {"PENDING", "ERROR"}

\* C12: a storage failure never fails a run. The lookup step, whether it resolves or
\* rejects, sets no error and touches no stage, and leaves the warning empty unless
\* it found a record; the upsert step, whether it resolves or rejects, leaves
\* SourceIntelligence Completed, sets no error and hands over to the synthesis step.
C12_StorageFailureIsNotFatal ==
    [][\A r \in Runs :
          /\ (run[r].pc = "lookup" /\ run'[r] # run[r]) =>
                /\ run'[r] = [run[r] EXCEPT !.pc = "begin"]
                /\ UNCHANGED <<error, pipelineState, analysisResults, isLoading>>
                /\ misinformationWarning' \in
                      {NoRecord,
                       getMisinformationRecordByDomain(memory, Hostname(run[r].input.url))}
          /\ (run[r].pc = "awaitUpsert" /\ run'[r] # run[r]) =>
                /\ run'[r] = [run[r] EXCEPT !.pc = "final"]
                /\ StatusOf(run'[r], "SOURCE_INTELLIGENCE") = "COMPLETED"
                /\ run'[r].err = ""
                /\ UNCHANGED <<error, pipelineState, analysisResults, isLoading>>
                /\ memory' \in {memory, addMisinformationRecord(memory, run[r].record)}
          /\ (run[r].pc = "final" /\ run[r].record # NoRecord /\ HasDataForBrief(run[r])
              /\ run'[r] # run[r]) =>
                run'[r].pc = "delayFinal"]_vars

\* Both failures in one run: the lookup of a flagged domain failed (no warning although
\* the memory holds a record of the domain), the upsert failed (the record of the run is
\* not in the memory), and the run went through: report, history item, chat, no error.
C12_Witness ==
    \E r \in Runs :
       /\ run[r].pc = "done"
       /\ run[r].outcome = "success"
       /\ run[r].record # NoRecord
       /\ run[r].record \notin memory
       /\ getMisinformationRecordByDomain(memory, Hostname(run[r].input.url)) # NoRecord
       /\ misinformationWarning = NoRecord
       /\ chatMessages = <<NewReportGreeting>>
       /\ error = NoError
       /\ StatusOf(run[r], "SOURCE_INTELLIGENCE") = "COMPLETED"
       /\ StatusOf(run[r], "FINAL_SYNTHESIS") = "COMPLETED"

\* C13: the completion step of a run whose FinalSynthesis Completed prepends exactly
\* one item to the history, carrying the full report, the final pipeline state and the
\* analysis results of the run, makes it the active analysis, and starts a chat session
\* grounded in that report whose transcript is the single greeting; no other step of a
\* run changes the history.
C13_CompletionAppendsAndBootstrapsChat ==
    [][\A r \in Runs :
          /\ (run[r].pc = "complete" /\ run'[r] # run[r]) =>
                /\ StatusOf(run[r], "FINAL_SYNTHESIS") = "COMPLETED"
                /\ Len(history') = Len(history) + 1
                /\ SubSeq(history', 2, Len(history')) = history
                /\ history'[1].report = run[r].fullReport
                /\ history'[1].pipelineState = run[r].currentPipelineState
                /\ history'[1].analysisResults = run[r].currentAnalysisResults
                /\ history'[1].id \in Now(clock)
                /\ history'[1].timestamp \in Now(history'[1].id)
                /\ activeAnalysisId' = history'[1].id
                /\ chatSession' # NoSession
                /\ chatSession'.report = run[r].fullReport
                /\ chatSession'.id # chatSession.id
                /\ chatMessages' = <<NewReportGreeting>>
                /\ run'[r].outcome = "success"
          /\ (run[r].pc # "complete" /\ run'[r] # run[r]) => history' = history]_vars

\* Two runs went through: the second one's item was put in front of the first one's,
\* is the active analysis, and the chat is grounded in its report.
C13_Witness ==
    /\ \A r \in Runs : run[r].pc = "done" /\ run[r].outcome = "success"
    /\ Len(history) = 2
    /\ history[1].report = run["r2"].fullReport
    /\ Len(history[1].report) = MaxChunks
    /\ activeAnalysisId = history[1].id
    /\ chatSession.report = history[1].report
    /\ chatMessages = <<NewReportGreeting>>

\* C14: the history is in insertion order, newest first. Every change of the list is
\* either the prepending of one new item in front of the unchanged list, or the
\* clear-all, which leaves it empty; so the list is at all times the items appended
\* since the last clear, the latest at the head: no item was created before an item
\* behind it.
C14_HistoryNewestFirst ==
    /\ [](\A i, j \in 1..Len(history) : i < j => history[i].id >= history[j].id)
    /\ [][history' # history =>
             \/ /\ history' = <<>>
                /\ \A r \in Runs : run'[r] = run[r]
             \/ /\ Len(history') = Len(history) + 1
                /\ SubSeq(history', 2, Len(history')) = history
                /\ \E r \in Runs : /\ run[r].pc = "complete"
                                   /\ \E id \in Now(clock) : \E timestamp \in Now(id) :
                                         history'[1] = NewHistoryItem(run[r], id, timestamp)]_vars

\* A run went through, the history was cleared, and the other run went through: the
\* list holds the one item appended since the clear.
C14_Witness ==
    /\ \A r \in Runs : run[r].pc = "done" /\ run[r].outcome = "success"
    /\ Len(history) = 1
    /\ \E r \in Runs : history[1].report = run[r].fullReport
    /\ history[1].id = clock

\* C15: persisting the history is best-effort. When the completion step of a run
\* leaves localStorage as it was (the write failed), the new item is still at the head
\* of the history, no error is set, the run ends as a success and the chat session is
\* started all the same.
C15_FailedSaveKeepsTheAppend ==
    [][\A r \in Runs :
          (run[r].pc = "complete" /\ run'[r] # run[r]) =>
             /\ run'[r].pc = "done"
             /\ localHistory' \in {localHistory, history'}
             /\ localHistory' = localHistory =>
                   /\ \E id \in Now(clock) : \E timestamp \in Now(id) :
                         history' = <<NewHistoryItem(run[r], id, timestamp)>> \o history
                   /\ error' = error
                   /\ error' = NoError
                   /\ run'[r].outcome = "success"
                   /\ ~isLoading'
                   /\ activeAnalysisId' = history'[1].id
                   /\ chatSession' # NoSession
                   /\ chatSession'.report = run[r].fullReport
                   /\ chatMessages' = <<NewReportGreeting>>]_vars

\* The save failed: the item is in the history and not in localStorage, and the run
\* is shown as a success with its chat.
C15_Witness ==
    \E r \in Runs :
       /\ run[r].pc = "done"
       /\ run[r].outcome = "success"
       /\ Len(history) = 1
       /\ history[1].report = run[r].fullReport
       /\ localHistory = <<>>
       /\ error = NoError
       /\ activeAnalysisId = history[1].id
       /\ chatSession.report = run[r].fullReport
       /\ chatMessages = <<NewReportGreeting>>

\* C16: a comparison asked for with fewer than two selected items is a no-op: the
\* activation returns at once, no stream is started, and isComparing, the comparison
\* report, the error, the selection, compare mode, the comparison view and the history
\* are left as they were. A stream is started only with two or more selected items.
C16_ComparisonNeedsTwoItems ==
    [][\A c \in Compares :
          (compare[c].pc \in {"idle", "returned"} /\ compare'[c] # compare[c]) =>
             IF Len(selectedHistoryIds) < 2
             THEN /\ compare'[c] = [compare[c] EXCEPT !.pc = "returned"]
                  /\ UNCHANGED <<isComparing, comparisonReport, error, selectedHistoryIds,
                                 isCompareMode, showComparisonView, history>>
             ELSE /\ compare'[c].pc = "stream"
                  /\ Len(compare'[c].reportsToCompare) >= 2]_vars

\* In compare mode with one item selected, a comparison was asked for and returned:
\* nothing is being compared and there is no comparison report.
C16_Witness ==
    /\ isCompareMode
    /\ Len(selectedHistoryIds) = 1
    /\ compare["c1"].pc = "returned"
    /\ compare["c2"].pc = "idle"
    /\ ~isComparing
    /\ comparisonReport = NoReport
    /\ error = NoError

\* C17, as claimed: when a comparison ends without failure, the comparison report
\* shown is the concatenation, in arrival order, of the chunks its stream yielded,
\* whatever the user did while it streamed.
C17_BriefIsTheConcatenationOfItsChunks ==
    [][\A c \in Compares :
          (compare[c].pc = "stream" /\ compare'[c].pc = "done") =>
             /\ showComparisonView'
             /\ (IF comparisonReport'.null THEN <<>> ELSE comparisonReport'.text)
                   = compare[c].fullBrief]_vars

\* C18, as claimed: when the stream of a comparison fails part-way, the error shown
\* starts with "Comparison failed", the selection is cleared, compare mode is left, the
\* comparison view is not shown, isComparing is false again, and the text already
\* streamed into the comparison report is not retracted.
C18_FailedComparison ==
    [][\A c \in Compares :
          (compare[c].pc = "stream" /\ compare'[c].pc = "failed") =>
             /\ error'.template = "Comparison failed"
             /\ error'.details = getFriendlyErrorMessage(ModelError)
             /\ selectedHistoryIds' = <<>>
             /\ ~isCompareMode'
             /\ ~showComparisonView'
             /\ ~isComparing'
             /\ comparisonReport' = comparisonReport]_vars

\* C19, as claimed: at every moment of an active send, from the append of the user
\* message on, the last entry of the transcript is the one in-progress model entry of
\* that send, holding the chunks received so far, right after its user message.
C19_AlwaysOneInProgressEntry ==
    \A s \in Sends :
       send[s].pc # "idle" =>
          /\ Len(chatMessages) >= 2
          /\ chatMessages[Len(chatMessages)] =
                [role |-> "model", content |-> send[s].modelResponse]
          /\ chatMessages[Len(chatMessages) - 1] =
                [role |-> "user", content |-> <<send[s].message>>]

\* C20: a session is started on a report and one message is sent whose reply streams
\* to its end: the transcript is then exactly the greeting, the user message and one
\* model reply holding the reply chunks in order. Starting a session on a report
\* replaces the transcript by the single greeting and grounds the session in that
\* report.
C20_ThreeEntriesAfterOneSend ==
    /\ [](chatSession # NoSession =>
             /\ Len(chatMessages) >= 1
             /\ chatMessages[1] = PastReportGreeting)
    /\ [][/\ \A s \in Sends :
                (/\ send[s].pc = "stream" /\ send'[s].pc = "idle"
                 /\ chatMessages' = chatMessages
                 /\ UserMessages = 1) =>
                   /\ chatMessages' =
                         <<PastReportGreeting,
                           [role |-> "user", content |-> <<send[s].message>>],
                           [role |-> "model", content |-> send[s].modelResponse]>>
                   /\ send[s].modelResponse =
                         SubSeq(StreamChunks, 1, Len(send[s].modelResponse))
                   /\ ~isChatLoading'
          /\ (chatSession' # chatSession /\ chatSession' # NoSession) =>
                /\ chatMessages' = <<PastReportGreeting>>
                /\ chatSession'.id # chatSession.id
                /\ \E i \in 1..Len(history) :
                      /\ history[i].id = activeAnalysisId'
                      /\ chatSession'.report = history[i].report]_vars

\* The session on the newer stored report, one message sent, the reply of two chunks
\* received to its end.
C20_Witness ==
    /\ \A s \in Sends : send[s].pc = "idle"
    /\ ~isChatLoading
    /\ chatSession.report = <<"c", "d">>
    /\ chatMessages = <<PastReportGreeting,
                        [role |-> "user", content |-> <<"What is the risk?">>],
                        [role |-> "model", content |-> <<"a", "b">>]>>

\* C21: a step of the user that changes the view or the chat and leaves an analysis
\* active is the selection of a history item: the report, pipeline state, results and url shown are that item's snapshots
\* and the history is untouched; with a non-empty stored report the chat session is
\* replaced by a fresh one grounded in exactly that report and the transcript by the
\* greeting for past reports; with an empty stored report there is no session and the
\* transcript is empty. No selection ever activates an id the history does not hold.
C21_SelectingAHistoryItem ==
    [][(/\ run' = run /\ activeAnalysisId' # 0
        /\ <<viewVars, chatVars, compareVars, storeVars, history>>'
              # <<viewVars, chatVars, compareVars, storeVars, history>>) =>
          \E i \in 1..Len(history) :
             LET item == history[i]
             IN /\ item.id = activeAnalysisId'
                /\ finalReport' = Report(item.report)
                /\ pipelineState' = item.pipelineState
                /\ analysisResults' = item.analysisResults
                /\ url' = item.url
                /\ history' = history
                /\ error' = NoError
                /\ ~isLoading'
                /\ misinformationWarning' = NoRecord
                /\ IF item.report # <<>>
                   THEN /\ chatSession' # NoSession
                        /\ chatSession'.report = item.report
                        /\ chatSession'.id # chatSession.id
                        /\ chatMessages' = <<PastReportGreeting>>
                   ELSE /\ chatSession' = NoSession
                        /\ chatMessages' = <<>>]_vars

\* The item of a run whose report came out empty was selected: it is the active
\* analysis, its empty report is shown, and there is no chat session.
C21_Witness ==
    /\ activeAnalysisId # 0
    /\ Len(history) = 1
    /\ history[1].id = activeAnalysisId
    /\ history[1].report = <<>>
    /\ finalReport = Report(<<>>)
    /\ pipelineState = history[1].pipelineState
    /\ chatSession = NoSession
    /\ chatMessages = <<>>

\* The pcs before the ingestion branch has been taken.
BeforeIngestionPcs == {"idle", "lookup", "begin", "readImage", "ingest"}

\* C22, as claimed: Ingestion is Skipped only if none of the four input kinds was
\* submitted.
C22_IngestionSkippedOnlyWithoutInput ==
    \A r \in Runs :
       StatusOf(run[r], "CONTENT_INGESTION") = "SKIPPED" => EmptySubmission(run[r].input)

\* C22, amended: Ingestion is Skipped exactly when neither a URL nor raw text was
\* submitted, that is for a submission of an image or a video alone; with a URL or
\* raw text it is never Skipped and, once the run has ended after reaching it, it is
\* Completed or Error. A submission of nothing starts no run.
C22_IngestionSkippedWithoutUrlAndText ==
    \A r \in Runs :
       LET in == run[r].input
           reached == run[r].pc \notin BeforeIngestionPcs /\ run[r].err # ImageReadError
       IN /\ run[r].pc # "idle" => ~EmptySubmission(in)
          /\ StatusOf(run[r], "CONTENT_INGESTION") = "SKIPPED" =>
                /\ in.url = NoUrl /\ in.textInput = ""
                /\ in.imageFile # NoFile \/ in.videoFile # NoFile
                /\ run[r].currentPipelineState["CONTENT_INGESTION"].details
                      = "No URL or text provided"
          /\ (reached /\ in.url = NoUrl /\ in.textInput = "") =>
                StatusOf(run[r], "CONTENT_INGESTION") = "SKIPPED"
          /\ (reached /\ (in.url # NoUrl \/ in.textInput # "")) =>
                StatusOf(run[r], "CONTENT_INGESTION") \in {"RUNNING", "COMPLETED", "ERROR"}
          /\ (reached /\ run[r].pc = "done" /\ (in.url # NoUrl \/ in.textInput # "")) =>
                StatusOf(run[r], "CONTENT_INGESTION") \in {"COMPLETED", "ERROR"}

\* An image alone was submitted: Ingestion was Skipped, VisualAnalysis Completed, and
\* the run went through.
C22_Witness ==
    \E r \in Runs :
       /\ run[r].pc = "done"
       /\ run[r].outcome = "success"
       /\ run[r].input.imageFile # NoFile
       /\ run[r].input.url = NoUrl /\ run[r].input.textInput = ""
       /\ StatusOf(run[r], "CONTENT_INGESTION") = "SKIPPED"
       /\ StatusOf(run[r], "VISUAL_ANALYSIS") = "COMPLETED"

\* C23: when Ingestion Completed with an empty ingestion.text, TextualAnalysis and
\* EmotionAnalysis are never Running, Completed or Error in that run and produce no
\* result; once the run is past them, both are Skipped.
C23_EmptyTextSkipsTextualAndEmotion ==
    \A r \in Runs :
       (/\ StatusOf(run[r], "CONTENT_INGESTION") = "COMPLETED"
        /\ run[r].currentAnalysisResults.ingestion.present
        /\ run[r].currentAnalysisResults.ingestion.text = "") =>
          /\ StatusOf(run[r], "TEXTUAL_ANALYSIS") \in {"PENDING", "SKIPPED"}
          /\ StatusOf(run[r], "EMOTION_ANALYSIS") \in {"PENDING", "SKIPPED"}
          /\ ~run[r].currentAnalysisResults.textual
          /\ ~run[r].currentAnalysisResults.emotion
          /\ run[r].pc \notin {"delayTextual", "awaitTextual", "delayEmotion", "awaitEmotion"}
          /\ run[r].pc \notin {"textual", "emotion"} =>
                /\ StatusOf(run[r], "TEXTUAL_ANALYSIS") = "SKIPPED"
                /\ StatusOf(run[r], "EMOTION_ANALYSIS") = "SKIPPED"

\* A URL with an image: the ingestion found no text, both text stages were Skipped,
\* and the run went through on the visual result.
C23_Witness ==
    \E r \in Runs :
       /\ run[r].pc = "done"
       /\ run[r].outcome = "success"
       /\ run[r].currentAnalysisResults.ingestion.present
       /\ run[r].currentAnalysisResults.ingestion.text = ""
       /\ StatusOf(run[r], "CONTENT_INGESTION") = "COMPLETED"
       /\ StatusOf(run[r], "TEXTUAL_ANALYSIS") = "SKIPPED"
       /\ StatusOf(run[r], "EMOTION_ANALYSIS") = "SKIPPED"

\* C24, as claimed: a URL is submitted without image or video and its ingestion
\* yields no text. Ingestion is Completed with "No main text found" and the domain of
\* the URL; the run never reaches the synthesis stream and never succeeds; when it has
\* ended, TextualAnalysis, EmotionAnalysis and VisualAnalysis are Skipped,
\* SourceIntelligence has run on the domain (Completed, or Error when its call
\* failed), and a run whose SourceIntelligence Completed failed on the no-data error
\* with FinalSynthesis Pending.
C24_UrlWithoutTextFailsAtSynthesis ==
    \A r \in Runs :
       (/\ run[r].input.url # NoUrl
        /\ run[r].input.imageFile = NoFile /\ run[r].input.videoFile = NoFile
        /\ run[r].currentAnalysisResults.ingestion.present
        /\ run[r].currentAnalysisResults.ingestion.text = "") =>
          /\ run[r].currentPipelineState["CONTENT_INGESTION"] =
                [status |-> "COMPLETED", details |-> "No main text found"]
          /\ run[r].currentAnalysisResults.ingestion.domain = Hostname(run[r].input.url)
          /\ run[r].pc \notin {"delayVisual", "awaitFrames", "awaitVisual",
                               "delayFinal", "stream", "complete"}
          /\ run[r].outcome # "success"
          /\ run[r].record # NoRecord =>
                run[r].record.domain = Hostname(run[r].input.url)
          /\ run[r].pc = "done" =>
                /\ StatusOf(run[r], "TEXTUAL_ANALYSIS") = "SKIPPED"
                /\ StatusOf(run[r], "EMOTION_ANALYSIS") = "SKIPPED"
                /\ StatusOf(run[r], "VISUAL_ANALYSIS") = "SKIPPED"
                /\ StatusOf(run[r], "SOURCE_INTELLIGENCE") \in {"COMPLETED", "ERROR"}
                /\ StatusOf(run[r], "FINAL_SYNTHESIS") = "PENDING"
                /\ StatusOf(run[r], "SOURCE_INTELLIGENCE") = "COMPLETED" =>
                      /\ run[r].currentAnalysisResults.source.present
                      /\ run[r].err = NoDataError
                /\ StatusOf(run[r], "SOURCE_INTELLIGENCE") = "ERROR" =>
                      run[r].err = ModelError

\* C24, amended: a URL is submitted without image or video and its ingestion yields
\* no text. Ingestion is Completed with "No main text found" and the hostname of the
\* URL as its domain; the run never reaches the synthesis stream and never succeeds;
\* when it has ended, TextualAnalysis, EmotionAnalysis and VisualAnalysis are Skipped
\* and FinalSynthesis is Pending. With a URL that has a hostname SourceIntelligence has
\* run on it (Completed, or Error when its call failed) and may have written its
\* record; with a URL that has none it is Skipped with "No domain to verify" and
\* nothing is written. A run whose SourceIntelligence did not fail ended on the no-data
\* error.
C24_SourceRunsOnTheHostnameIfAny ==
    \A r \in Runs :
       (/\ run[r].input.url # NoUrl
        /\ run[r].input.imageFile = NoFile /\ run[r].input.videoFile = NoFile
        /\ run[r].currentAnalysisResults.ingestion.present
        /\ run[r].currentAnalysisResults.ingestion.text = "") =>
          LET domain == Hostname(run[r].input.url)
          IN /\ run[r].currentPipelineState["CONTENT_INGESTION"] =
                   [status |-> "COMPLETED", details |-> "No main text found"]
             /\ run[r].currentAnalysisResults.ingestion.domain = domain
             /\ run[r].pc \notin {"delayVisual", "awaitFrames", "awaitVisual",
                                  "delayFinal", "stream", "complete"}
             /\ run[r].outcome # "success"
             /\ run[r].record # NoRecord =>
                   /\ domain # ""
                   /\ run[r].record.domain = domain
             /\ domain = "" =>
                   /\ run[r].pc \notin {"delaySource", "awaitSource", "awaitUpsert"}
                   /\ StatusOf(run[r], "SOURCE_INTELLIGENCE") \in {"PENDING", "SKIPPED"}
             /\ run[r].pc = "done" =>
                   /\ StatusOf(run[r], "TEXTUAL_ANALYSIS") = "SKIPPED"
                   /\ StatusOf(run[r], "EMOTION_ANALYSIS") = "SKIPPED"
                   /\ StatusOf(run[r], "VISUAL_ANALYSIS") = "SKIPPED"
                   /\ StatusOf(run[r], "FINAL_SYNTHESIS") = "PENDING"
                   /\ IF domain # ""
                      THEN StatusOf(run[r], "SOURCE_INTELLIGENCE") \in {"COMPLETED", "ERROR"}
                      ELSE run[r].currentPipelineState["SOURCE_INTELLIGENCE"] =
                              [status |-> "SKIPPED", details |-> "No domain to verify"]
                   /\ StatusOf(run[r], "SOURCE_INTELLIGENCE") = "COMPLETED" =>
                         run[r].currentAnalysisResults.source.present
                   /\ StatusOf(run[r], "SOURCE_INTELLIGENCE") # "ERROR" =>
                         run[r].err = NoDataError
                   /\ StatusOf(run[r], "SOURCE_INTELLIGENCE") = "ERROR" =>
                         run[r].err = ModelError

\* The scenario with the URL that has no hostname: its SourceIntelligence was Skipped,
\* nothing was written to the memory, and the run failed on the no-data error.
C24_Witness ==
    \E r \in Runs :
       /\ run[r].pc = "done"
       /\ run[r].input.url = <<"file", "", "/a">>
       /\ run[r].input.imageFile = NoFile /\ run[r].input.videoFile = NoFile
       /\ run[r].currentAnalysisResults.ingestion.present
       /\ run[r].currentAnalysisResults.ingestion.text = ""
       /\ run[r].currentPipelineState["CONTENT_INGESTION"].details = "No main text found"
       /\ run[r].currentPipelineState["SOURCE_INTELLIGENCE"] =
             [status |-> "SKIPPED", details |-> "No domain to verify"]
       /\ run[r].record = NoRecord
       /\ run[r].err = NoDataError
       /\ error.template = "Pipeline failed"

\* The control points of a run after its SourceIntelligence stage when that stage
\* cannot throw: the synthesis, or an end reached with the visual stage settled.
PastSource(rr) ==
    \/ rr.pc \in {"final", "delayFinal", "stream", "complete"}
    \/ /\ rr.pc \in {"catch", "done"}
       /\ rr.currentPipelineState["VISUAL_ANALYSIS"].status \in {"COMPLETED", "SKIPPED"}

\* C25: a run on raw text without URL never looks the memory up, never calls
\* SourceIntelligence, never upserts and leaves the memory as it is; its ingestion
\* result, once published, holds the submitted text and the empty domain with
\* Ingestion Completed "Text processed"; it has no source result, and past the
\* source stage SourceIntelligence is Skipped with "No domain to verify".
C25_RawTextSkipsSourceAndMemory ==
    /\ [](\A r \in Runs :
            (/\ run[r].pc # "idle"
             /\ run[r].input.url = NoUrl /\ run[r].input.textInput # "") =>
               /\ run[r].pc \notin {"lookup", "awaitIngest",
                                    "delaySource", "awaitSource", "awaitUpsert"}
               /\ run[r].record = NoRecord
               /\ ~run[r].currentAnalysisResults.source.present
               /\ StatusOf(run[r], "SOURCE_INTELLIGENCE") \in {"PENDING", "SKIPPED"}
               /\ run[r].currentAnalysisResults.ingestion.present =>
                     /\ run[r].currentAnalysisResults.ingestion.text = run[r].input.textInput
                     /\ run[r].currentAnalysisResults.ingestion.domain = ""
                     /\ run[r].currentPipelineState["CONTENT_INGESTION"] =
                           [status |-> "COMPLETED", details |-> "Text processed"]
               /\ PastSource(run[r]) =>
                     run[r].currentPipelineState["SOURCE_INTELLIGENCE"] =
                        [status |-> "SKIPPED", details |-> "No domain to verify"])
    /\ [][(\E r \in Runs : /\ thread' = r \/ thread = r
                           /\ run'[r].input.url = NoUrl)
             => memory' = memory]_vars

\* A run on raw text has ended with success, with a memory that holds a record.
C25_Witness ==
    \E r \in Runs :
       /\ run[r].pc = "done" /\ run[r].outcome = "success"
       /\ run[r].input.url = NoUrl /\ run[r].input.textInput = "some text"
       /\ run[r].currentAnalysisResults.ingestion =
             [present |-> TRUE, text |-> "some text", domain |-> ""]
       /\ run[r].currentPipelineState["CONTENT_INGESTION"].details = "Text processed"
       /\ StatusOf(run[r], "SOURCE_INTELLIGENCE") = "SKIPPED"
       /\ memory # {}
       /\ ~analysisResults.source.present

\* C26: a run ends once. The error message is set only by the catch clause of a run,
\* once, on a view that shows no error, and a run that reported success never shows
\* one; the catch clause leaves the published results as the run accumulated them and
\* keeps every stage that was Completed or Skipped as it was.
C26_OneErrorPerFailedRun ==
    /\ [](\A r \in Runs : run[r].outcome = "success" =>
             /\ run[r].pc = "done"
             /\ error = NoError)
    /\ [][\A r \in Runs : run[r].pc = "done" => run'[r] = run[r]]_vars
    /\ [][(error' # error /\ error' # NoError) =>
             \E r \in Runs : /\ run[r].pc = "catch" /\ run'[r].pc = "done"
                             /\ run'[r].outcome = "failed"
                             /\ error = NoError]_vars
    /\ [][\A r \in Runs :
             (run[r].pc = "catch" /\ run'[r].pc # "catch") =>
                /\ error' = [template |-> ErrorTemplate(FailedAgentName(run[r])),
                             details |-> getFriendlyErrorMessage(run[r].err)]
                /\ isLoading' = FALSE
                /\ analysisResults' = run[r].currentAnalysisResults
                /\ analysisResults' = analysisResults
                /\ \A a \in AgentNames :
                      run[r].currentPipelineState[a].status \in {"COMPLETED", "SKIPPED"} =>
                         /\ pipelineState'[a] = run[r].currentPipelineState[a]
                         /\ run'[r].currentPipelineState[a] =
                               run[r].currentPipelineState[a]]_vars

\* A run failed in EmotionAnalysis: its error is shown next to the textual result and
\* the Completed statuses of the two stages before.
C26_Witness ==
    \E r \in Runs :
       /\ run[r].pc = "done" /\ run[r].outcome = "failed"
       /\ error = [template |-> "Emotion Analysis failed.",
                   details |-> getFriendlyErrorMessage(ModelError)]
       /\ pipelineState["CONTENT_INGESTION"].status = "COMPLETED"
       /\ pipelineState["TEXTUAL_ANALYSIS"].status = "COMPLETED"
       /\ pipelineState["EMOTION_ANALYSIS"].status = "ERROR"
       /\ analysisResults.ingestion.present
       /\ analysisResults.textual
       /\ ~isLoading

\* Every frame extraction comes to an end: it resolves or rejects.
FrameExtractionSettles ==
    \A r \in Runs : run[r].pc = "awaitFrames" ~> run[r].pc # "awaitFrames"

\* C27: with every call and stream coming to an end, and provided that every frame
\* extraction comes to an end, a started run leads to its end with isLoading false
\* and either a new history item, shown with its chat session and no error, or an
\* error message with no new history item; a started comparison leads to its end
\* with isComparing false; a chat send leads to its end with isChatLoading false.
C27_EveryFlowEnds ==
    /\ FrameExtractionSettles =>
       \A r \in Runs :
          RunInFlight(r) ~>
             /\ run[r].pc = "done" /\ ~isLoading
             /\ \/ /\ run[r].outcome = "success"
                   /\ Len(history) = Len(StoredHistoryOfTwo) + 1
                   /\ history[1].id = activeAnalysisId
                   /\ history[1].report = run[r].fullReport
                   /\ chatSession # NoSession
                   /\ error = NoError
                \/ /\ run[r].outcome = "failed"
                   /\ error # NoError
                   /\ history = StoredHistoryOfTwo
                   /\ chatSession = NoSession
    /\ \A c \in Compares :
          compare[c].pc = "stream" ~> (compare[c].pc \in {"done", "failed"} /\ ~isComparing)
    /\ \A s \in Sends :
          send[s].pc # "idle" ~> (send[s].pc = "idle" /\ ~isChatLoading)

\* Every flow has ended once: a comparison, then a run with its history item, then a
\* chat send whose reply is in the transcript.
C27_Witness ==
    /\ compare["c1"].pc = "done" /\ ~isComparing
    /\ run["r1"].pc = "done" /\ run["r1"].outcome = "success" /\ ~isLoading
    /\ Len(history) = 3
    /\ UserMessages = 1 /\ Len(chatMessages) = 3
    /\ send["s1"].pc = "idle" /\ ~isChatLoading

\* The changes of status a stage can go through.
StatusChanges ==
    {<<"PENDING", "RUNNING">>, <<"PENDING", "SKIPPED">>,
     <<"RUNNING", "COMPLETED">>, <<"RUNNING", "ERROR">>}

\* A stage goes from one entry of the pipeline state to the next.
StageMoves(old, new) ==
    /\ old.status \in TerminalStatuses => new = old
    /\ new.status = "PENDING" => old.status = "PENDING"
    /\ new.status # old.status => <<old.status, new.status>> \in StatusChanges

\* C28: within one run, in the run's own pipeline state and in the published one, a
\* stage that is Completed, Skipped or Error keeps its entry, no stage returns to
\* Pending, and a status changes only from Pending to Running or Skipped and from
\* Running to Completed or Error.
C28_TerminalStatusesAreFinal ==
    [][\A r \in Runs : \A a \in AgentNames :
          /\ run[r].pc # "idle" =>
                StageMoves(run[r].currentPipelineState[a], run'[r].currentPipelineState[a])
          /\ (RunInFlight(r) /\ run[r].pc \notin {"lookup", "begin"}) =>
                StageMoves(pipelineState[a], pipelineState'[a])]_vars

\* A run has ended with stages in each of the three terminal statuses.
C28_Witness ==
    \E r \in Runs :
       /\ run[r].pc = "done"
       /\ StatusOf(run[r], "CONTENT_INGESTION") = "COMPLETED"
       /\ StatusOf(run[r], "VISUAL_ANALYSIS") = "SKIPPED"
       /\ StatusOf(run[r], "SOURCE_INTELLIGENCE") = "ERROR"
       /\ StatusOf(run[r], "FINAL_SYNTHESIS") = "PENDING"
       /\ pipelineState = run[r].currentPipelineState

\* The stage that writes each field of AnalysisResults.
StageOfField ==
    [ingestion |-> "CONTENT_INGESTION", textual |-> "TEXTUAL_ANALYSIS",
     emotion |-> "EMOTION_ANALYSIS", visual |-> "VISUAL_ANALYSIS",
     source |-> "SOURCE_INTELLIGENCE"]

\* The fields of an AnalysisResults that are populated.
Populated(results) ==
    {f \in DOMAIN StageOfField :
        CASE f = "ingestion" -> results.ingestion.present
          [] f = "source" -> results.source.present
          [] f = "textual" -> results.textual
          [] f = "emotion" -> results.emotion
          [] OTHER -> results.visual}

\* C29: in the published state, in the locals of every run and in every history
\* item, a field of the results is populated only if the status of its stage is
\* Completed.
C29_ResultOnlyWhenCompleted ==
    /\ \A f \in Populated(analysisResults) :
          pipelineState[StageOfField[f]].status = "COMPLETED"
    /\ \A r \in Runs : \A f \in Populated(run[r].currentAnalysisResults) :
          StatusOf(run[r], StageOfField[f]) = "COMPLETED"
    /\ \A i \in 1..Len(history) : \A f \in Populated(history[i].analysisResults) :
          history[i].pipelineState[StageOfField[f]].status = "COMPLETED"

\* A failed run is shown with results for its Completed stages and none for the
\* stage that failed or the stages after it.
C29_Witness ==
    \E r \in Runs :
       /\ run[r].pc = "done" /\ run[r].outcome = "failed"
       /\ Populated(analysisResults) = {"ingestion", "textual", "emotion"}
       /\ pipelineState["VISUAL_ANALYSIS"].status = "ERROR"
       /\ pipelineState["SOURCE_INTELLIGENCE"].status = "PENDING"

\* What a stage needs of the submission and of the ingestion result in order to run.
Precondition(rr, agent) ==
    CASE agent \in {"TEXTUAL_ANALYSIS", "EMOTION_ANALYSIS"} ->
            rr.currentAnalysisResults.ingestion.text # ""
      [] agent = "VISUAL_ANALYSIS" ->
            rr.input.imageFile # NoFile \/ rr.input.videoFile # NoFile
      [] agent = "SOURCE_INTELLIGENCE" ->
            rr.currentAnalysisResults.ingestion.domain # ""
      [] OTHER -> TRUE

ConditionalAgents ==
    {"TEXTUAL_ANALYSIS", "EMOTION_ANALYSIS", "VISUAL_ANALYSIS", "SOURCE_INTELLIGENCE"}

\* C30: in every run, a conditional stage that is Running, Completed or Error has its
\* precondition, a stage that is Skipped lacks it, and a run that went through all
\* stages has settled each of them: it is Skipped exactly when its precondition is
\* absent and Completed otherwise.
C30_StagesRunIffPreconditionHolds ==
    \A r \in Runs : \A a \in ConditionalAgents :
       /\ StatusOf(run[r], a) \in {"RUNNING", "COMPLETED", "ERROR"} =>
             Precondition(run[r], a)
       /\ StatusOf(run[r], a) = "SKIPPED" => ~Precondition(run[r], a)
       /\ run[r].outcome = "success" =>
             StatusOf(run[r], a) = IF Precondition(run[r], a) THEN "COMPLETED"
                                   ELSE "SKIPPED"

\* A run on a video alone went through: VisualAnalysis Completed, the three other
\* conditional stages Skipped.
C30_Witness ==
    \E r \in Runs :
       /\ run[r].pc = "done" /\ run[r].outcome = "success"
       /\ run[r].input.videoFile # NoFile /\ run[r].input.imageFile = NoFile
       /\ ~run[r].currentAnalysisResults.ingestion.present
       /\ StatusOf(run[r], "VISUAL_ANALYSIS") = "COMPLETED"
       /\ StatusOf(run[r], "TEXTUAL_ANALYSIS") = "SKIPPED"
       /\ StatusOf(run[r], "EMOTION_ANALYSIS") = "SKIPPED"
       /\ StatusOf(run[r], "SOURCE_INTELLIGENCE") = "SKIPPED"

\* The control point at which a run waits for the delay in front of a stage.
DelayPc ==
    [TEXTUAL_ANALYSIS |-> "delayTextual", EMOTION_ANALYSIS |-> "delayEmotion",
     VISUAL_ANALYSIS |-> "delayVisual", SOURCE_INTELLIGENCE |-> "delaySource",
     FINAL_SYNTHESIS |-> "delayFinal"]

\* C31: a stage enters Running either as ContentIngestion, first, with every other
\* stage still Pending, or in the step that resumes the run from the delay in front
\* of that stage; a run waits for a delay only when no stage is Running.
C31_DelayBeforeEveryLaterStage ==
    /\ [](\A r \in Runs :
            run[r].pc \in {DelayPc[a] : a \in DOMAIN DelayPc} => RunningAgents(run[r]) = {})
    /\ [][\A r \in Runs : \A a \in AgentNames :
            (StatusOf(run[r], a) # "RUNNING" /\ StatusOf(run'[r], a) = "RUNNING") =>
               IF a = "CONTENT_INGESTION"
               THEN /\ run[r].pc = "ingest"
                    /\ \A b \in AgentNames : StatusOf(run[r], b) = "PENDING"
               ELSE /\ run[r].pc = DelayPc[a]
                    /\ thread = "none"]_vars

\* A run waits for the delay in front of EmotionAnalysis after TextualAnalysis
\* Completed.
C31_Witness ==
    \E r \in Runs :
       /\ run[r].pc = "awaitEmotion"
       /\ StatusOf(run[r], "TEXTUAL_ANALYSIS") = "COMPLETED"
       /\ StatusOf(run[r], "EMOTION_ANALYSIS") = "RUNNING"

\* The transcript new continues the transcript old: nothing is removed or reordered,
\* at most one entry is appended, and an entry other than the last is kept as it is.
Continues(old, new) ==
    /\ Len(new) \in {Len(old), Len(old) + 1}
    /\ \A i \in 1..(Len(old) - 1) : new[i] = old[i]

\* C32, as claimed: every step of a chat send (the handler's entry, the opening of the stream, a
\* chunk, the end, the failure) continues the transcript, and changes an entry that
\* was there only if it is the last one, a model entry, and the reply in progress of
\* a send that is consuming its stream, in a step that appends nothing. The other
\* steps are the resets.
C32_TranscriptGrowsByAppend ==
    [][send' # send =>
          /\ Continues(chatMessages, chatMessages')
          /\ (chatMessages # <<>> /\
              chatMessages'[Len(chatMessages)] # chatMessages[Len(chatMessages)]) =>
                /\ Len(chatMessages') = Len(chatMessages)
                /\ chatMessages[Len(chatMessages)].role = "model"
                /\ chatMessages'[Len(chatMessages)].role = "model"
                /\ \E s \in Sends : send[s].pc = "stream"
                /\ Len(chatMessages) >= 3
                /\ chatMessages[Len(chatMessages) - 1].role = "user"]_vars

\* C33: every step a run takes after its state reset that does not end it with
\* success, the step that ends it as failed included, keeps the history and its
\* stored copy as they are, and is taken and left with no active analysis id, no chat
\* session and an empty transcript.
C33_FailedRunLeavesNoTrace ==
    [][\A r \in Runs :
          (/\ run[r].pc \notin {"idle", "lookup", "begin", "done"}
           /\ run'[r] # run[r]
           /\ run'[r].outcome # "success") =>
             /\ history' = history
             /\ localHistory' = localHistory
             /\ activeAnalysisId = 0 /\ activeAnalysisId' = 0
             /\ chatSession = NoSession /\ chatSession' = NoSession
             /\ chatMessages' = <<>>]_vars

\* A run failed while the final brief was streamed: part of the brief is shown, the
\* history is the stored one, and there is no active id and no chat session.
C33_Witness ==
    \E r \in Runs :
       /\ run[r].pc = "done" /\ run[r].outcome = "failed"
       /\ StatusOf(run[r], "FINAL_SYNTHESIS") = "ERROR"
       /\ run[r].fullReport # <<>>
       /\ finalReport = Report(run[r].fullReport)
       /\ history = StoredHistoryOfTwo
       /\ localHistory = StoredHistoryOfTwo
       /\ activeAnalysisId = 0
       /\ chatSession = NoSession

\* The stages of a run that are Error.
ErrorAgents(rr) == {a \in AgentNames : rr.currentPipelineState[a].status = "ERROR"}

\* C34: at most one stage is Running at a time; a run that has ended has no stage
\* Running and at most one Error, none when it succeeded; the catch clause makes
\* Error exactly the stage that was Running, and with no stage Running (the image
\* could not be read, there is nothing to synthesize) it marks none, publishes no
\* pipeline state and reports the generic "Pipeline failed" message; with a stage
\* Running the message is the one of that stage.
C34_ErrorIsTheRunningStage ==
    /\ [](\A r \in Runs :
             /\ Cardinality(RunningAgents(run[r])) <= 1
             /\ run[r].pc = "done" =>
                   /\ RunningAgents(run[r]) = {}
                   /\ Cardinality(ErrorAgents(run[r])) <= 1
                   /\ run[r].outcome = "success" => ErrorAgents(run[r]) = {}
                   /\ run[r].err \in {ImageReadError, NoDataError} =>
                         ErrorAgents(run[r]) = {})
    /\ [][\A r \in Runs :
             (run[r].pc = "catch" /\ run'[r].pc = "done") =>
                /\ ErrorAgents(run[r]) = {}
                /\ ErrorAgents(run'[r]) = RunningAgents(run[r])
                /\ IF RunningAgents(run[r]) = {}
                   THEN /\ error'.template = "Pipeline failed"
                        /\ pipelineState' = pipelineState
                        /\ run'[r].currentPipelineState = run[r].currentPipelineState
                   ELSE /\ error'.template # "Pipeline failed"
                        /\ \A a \in RunningAgents(run[r]) :
                              error'.template = ErrorTemplate(a)]_vars

\* A run whose image could not be read has ended: every stage is Pending and the
\* generic message is shown.
C34_Witness ==
    \E r \in Runs :
       /\ run[r].pc = "done"
       /\ run[r].err = ImageReadError
       /\ run[r].currentPipelineState = INITIAL_PIPELINE_STATE
       /\ pipelineState = INITIAL_PIPELINE_STATE
       /\ error = [template |-> "Pipeline failed",
                   details |-> getFriendlyErrorMessage(ImageReadError)]

\* C35: a run has ended after its SourceIntelligence produced a score below the
\* threshold for the domain of its URL. When the lookup of a later submission of a
\* URL of that domain resolves, no stage of the new run has started and the warning
\* becomes the record stored last for the domain, which is the record of the earlier
\* run; and no later step of the new run, its state reset included, changes the
\* warning.
C35_WarningForAKnownDomain ==
    /\ [][\A r, q \in Runs :
             (/\ run[r].pc = "lookup" /\ run'[r].pc # "lookup"
              /\ q # r /\ run[q].pc = "done"
              /\ run[q].currentAnalysisResults.source.present
              /\ run[q].currentAnalysisResults.source.trust_score < MISINFORMATION_THRESHOLD
              /\ run[q].currentAnalysisResults.ingestion.domain =
                    Hostname(run[r].input.url)) =>
                /\ misinformationWarning' = lastUpsert[Hostname(run[r].input.url)]
                /\ misinformationWarning' = run[q].record
                /\ misinformationWarning'.domain = Hostname(run[r].input.url)
                /\ misinformationWarning'.trustScore =
                      run[q].currentAnalysisResults.source.trust_score
                /\ run'[r].pc = "begin"
                /\ run'[r].currentPipelineState = INITIAL_PIPELINE_STATE]_vars
    /\ [][\A r \in Runs :
             (run[r].pc \notin {"idle", "lookup", "done"} /\ run'[r] # run[r]) =>
                misinformationWarning' = misinformationWarning]_vars

\* The second run on y.org awaits its ingestion under the warning that carries the
\* record of the first run, whose score was 39.
C35_Witness ==
    /\ run["r1"].pc = "done"
    /\ run["r1"].currentAnalysisResults.source.trust_score = 39
    /\ run["r2"].pc = "awaitIngest"
    /\ run["r2"].input.url = <<"https", "y.org", "/b">>
    /\ misinformationWarning = run["r1"].record
    /\ misinformationWarning.domain = "y.org"
    /\ isLoading

\* C36: every record in the memory has a score below the threshold; no step removes
\* the record of a domain; the memory changes only by the upsert of a run whose
\* score is below the threshold; and no step of a run whose SourceIntelligence
\* yielded a score at or above the threshold changes the memory, such a run holding
\* no record to write.
C36_MemoryKeepsRecordsAndLowScores ==
    /\ [](/\ \A m \in memory : m.trustScore < MISINFORMATION_THRESHOLD
          /\ \A r \in Runs :
                (/\ run[r].currentAnalysisResults.source.present
                 /\ run[r].currentAnalysisResults.source.trust_score
                       >= MISINFORMATION_THRESHOLD) =>
                   /\ run[r].record = NoRecord
                   /\ run[r].pc # "awaitUpsert")
    /\ [][/\ \A m \in memory : \E n \in memory' : n.domain = m.domain
          /\ memory' # memory =>
                \E r \in Runs :
                   /\ run[r].pc = "awaitUpsert"
                   /\ run[r].currentAnalysisResults.source.trust_score
                         < MISINFORMATION_THRESHOLD
                   /\ \A m \in memory :
                         m.domain # run[r].record.domain => m \in memory'
          /\ \A r \in Runs :
                (/\ run'[r] # run[r]
                 /\ run'[r].currentAnalysisResults.source.present
                 /\ run'[r].currentAnalysisResults.source.trust_score
                       >= MISINFORMATION_THRESHOLD) =>
                   memory' = memory]_vars

\* A run on x.com whose score was 40 went through; the record an earlier session
\* stored for x.com is in the memory as it was.
C36_Witness ==
    \E r \in Runs :
       /\ run[r].pc = "done" /\ run[r].outcome = "success"
       /\ run[r].currentAnalysisResults.ingestion.domain = "x.com"
       /\ run[r].currentAnalysisResults.source.trust_score = 40
       /\ memory = {[domain |-> "x.com", url |-> <<"https", "x.com", "/a">>,
                     trustScore |-> 30, timestamp |-> 1]}

\* C37: a run given a URL and raw text never takes the text branch of the ingestion:
\* its ingestion result holds what the model extracted from the URL and the URL's
\* domain, never the raw text. A run given an image and a video never extracts
\* frames: its VisualAnalysis goes through the image branch alone.
C37_UrlBeforeTextImageBeforeVideo ==
    \A r \in Runs :
       /\ (run[r].input.url # NoUrl /\ run[r].input.textInput # "") =>
             /\ run[r].pc # "ingestText"
             /\ run[r].currentPipelineState["CONTENT_INGESTION"].details \notin
                   {"Processing direct text...", "Text processed"}
             /\ run[r].currentAnalysisResults.ingestion.present =>
                   /\ run[r].currentAnalysisResults.ingestion.text \in ExtractedTexts
                   /\ run[r].currentAnalysisResults.ingestion.text # run[r].input.textInput
                   /\ run[r].currentAnalysisResults.ingestion.domain =
                         Hostname(run[r].input.url)
       /\ (run[r].input.imageFile # NoFile /\ run[r].input.videoFile # NoFile) =>
             /\ run[r].pc # "awaitFrames"
             /\ run[r].err \notin FrameErrors
             /\ run[r].currentPipelineState["VISUAL_ANALYSIS"].details \notin
                   {"Extracting frames from video...", "Analyzing video frames...",
                    "Video analysis complete"}
             /\ StatusOf(run[r], "VISUAL_ANALYSIS") = "COMPLETED" =>
                   /\ run[r].imageData
                   /\ run[r].currentPipelineState["VISUAL_ANALYSIS"].details =
                         "Image analysis complete"

\* A run given all four inputs went through: the ingestion holds the text of the URL
\* and the image was analysed.
C37_Witness ==
    \E r \in Runs :
       /\ run[r].pc = "done" /\ run[r].outcome = "success"
       /\ run[r].input.url # NoUrl /\ run[r].input.textInput = "some text"
       /\ run[r].input.imageFile # NoFile /\ run[r].input.videoFile # NoFile
       /\ run[r].currentAnalysisResults.ingestion.text = "article text"
       /\ run[r].currentPipelineState["CONTENT_INGESTION"].details = "Text extracted"
       /\ run[r].currentPipelineState["VISUAL_ANALYSIS"].details = "Image analysis complete"

\* C38, as claimed: whenever there is a chat session, the report it was started with
\* is not empty.
C38_SessionGroundedInAReport ==
    chatSession.id # NoSession.id => chatSession.report # <<>>

\* C39, as claimed: when a chat send ends in failure, whether sendMessageStream
\* rejected or the stream threw while it was consumed, the last entry of the
\* transcript is a model entry holding the error message, the entry before it is the
\* user's message, and isChatLoading is false.
C39_FailedSendShowsTheError ==
    [][\A s \in Sends :
          (/\ send[s].pc # "idle" /\ send'[s].pc = "idle"
           /\ send[s].pc = "open" \/ chatMessages' # chatMessages) =>
             /\ ~isChatLoading'
             /\ Len(chatMessages') >= 2
             /\ chatMessages'[Len(chatMessages')] =
                   [role |-> "model", content |-> ChatErrorContent(ModelError)]
             /\ chatMessages'[Len(chatMessages') - 1] =
                   [role |-> "user", content |-> <<send[s].message>>]]_vars

====
